---- MODULE Spec2Model ----
(***************************************************************************)
(* The cache/session coordination layer of libcord: the Client's caches    *)
(* (guilds, channels, users, slashCommands), the guild-scoped RoleManager  *)
(* and ChannelManager, and the remote request/response transport they      *)
(* await.  Every asynchronous call is a task; a task runs synchronously up *)
(* to its next await (one action), and resumes when the remote answers     *)
(* (one action per answer).                                                *)
(***************************************************************************)
EXTENDS Integers, Sequences, FiniteSets, TLC

VARIABLES
  user,           \* client.user is set (the READY handshake has completed)
  guilds,         \* client.guilds: guild id -> Guild (with its own caches)
  channels,       \* client.channels
  users,          \* client.users
  slashCommands,  \* client.slashCommands
  tasks,          \* the calls made so far, in call order
  nextObj         \* the next object identity handed out by a constructor

vars == <<user, guilds, channels, users, slashCommands, tasks, nextObj>>

----------------------------------------------------------------------------
(* Bounds of the model *)

\* calls started in one behaviour
MaxCalls == 3
\* snowflakes per entity family are 1..NumIds
NumIds == 2
\* guild snowflakes are 1..NumGuilds
NumGuilds == 1
\* roles (channels) embedded in one guild payload
MaxEmbed == 1
\* command definitions handed to one create or bulk-overwrite call
MaxDefs == 3
\* command calls started in one behaviour
MaxCmdCalls == 2
\* members in one page of a guild's member list
MaxPage == 2
\* guilds whose members are fetched
NumMemberGuilds == 2
\* fetchMembers calls started in one behaviour
MaxMemCalls == 2
\* names a role or channel can be given
NumNames == 2
\* positions a role can be given, counted from 0
MaxPosition == 1

Ids == 1..NumIds
GuildIds == 1..NumGuilds

\* channel types a payload may carry: 0 text, 1 DM, 5 news (a type that
\* fetchChannel does not know); 2 voice and 4 category go the way of 0
ChannelTypes == {0, 1, 5}
\* the type of the channels a guild payload embeds (text)
GuildChannelType == 0

----------------------------------------------------------------------------
(* Values *)

\* the JavaScript value undefined, as an entity
Undefined == [kind |-> "undefined", id |-> 0, obj |-> 0, guild_id |-> 0, def |-> 0]

\* the value true that a manager's delete returns
True == [kind |-> "true", id |-> 0, obj |-> 0, guild_id |-> 0, def |-> 0]

\* a raw payload of the remote API; the fields a payload lacks are undefined
\* (id 0, type -1, guild_id 0)
Payload(id, type, gid, def) ==
  [error |-> FALSE, id |-> id, type |-> type, guild_id |-> gid, def |-> def,
   roles |-> <<>>, channels |-> <<>>, list |-> <<>>]

\* the error a failed request rejects with
RequestError ==
  [error |-> TRUE, id |-> 0, type |-> -1, guild_id |-> 0, def |-> 0,
   roles |-> <<>>, channels |-> <<>>, list |-> <<>>]

\* new Kind(client, payload): the entity carries the payload's identifier
Construct(kind, payload, obj) ==
  [kind |-> kind, id |-> payload.id, obj |-> obj, guild_id |-> payload.guild_id,
   def |-> payload.def]

----------------------------------------------------------------------------
(* Collection: the keyed map every cache is *)

EmptyCollection == [k \in {} |-> Undefined]
Has(c, k) == k \in DOMAIN c
Get(c, k) == IF k \in DOMAIN c THEN c[k] ELSE Undefined
Set(c, k, v) == [x \in (DOMAIN c) \cup {k} |-> IF x = k THEN v ELSE c[x]]
Delete(c, k) == [x \in (DOMAIN c) \ {k} |-> c[x]]
\* a JavaScript truthiness test of a cached value
Truthy(v) == v.kind # "undefined"

----------------------------------------------------------------------------
(* RoleManager and ChannelManager: the cache side *)

\* a _addCache that builds the role and forgets to store it
RoleAddCache_NotStored(cache, role, n) ==
  [cache |-> cache,
   ret   |-> Construct("Role", role, n + 1),
   next  |-> n + 2]

\* RoleManager._addCache: the role is stored under its own id, and a second,
\* freshly constructed Role is returned
RoleAddCache(cache, role, n) ==
  [cache |-> Set(cache, role.id, Construct("Role", role, n)),
   ret   |-> Construct("Role", role, n + 1),
   next  |-> n + 2]

\* the class ChannelManager._addCache picks for a channel type
ManagerChannelKind(type) ==
  CASE type = 0 -> "TextChannel"
    [] type = 2 -> "VoiceChannel"
    [] type = 4 -> "CategoryChannel"
    [] OTHER    -> "Channel"

\* ChannelManager._addCache: every type is stored, the unknown ones as Channel
ChannelAddCache(cache, channel, n) ==
  [cache |-> Set(cache, channel.id, Construct(ManagerChannelKind(channel.type), channel, n)),
   ret   |-> Construct(ManagerChannelKind(channel.type), channel, n + 1),
   next  |-> n + 2]

\* a _initCache that seeds the first embedded role and stops
RoleInitCache_FirstOnly(roles, cache, n) ==
  IF roles = <<>> THEN [cache |-> cache, next |-> n]
  ELSE LET r == RoleAddCache(cache, Head(roles), n)
       IN  [cache |-> r.cache, next |-> r.next]


RECURSIVE RoleInitCache(_, _, _)
\* RoleManager._initCache: _addCache of every role the guild payload embeds
RoleInitCache(roles, cache, n) ==
  IF roles = <<>> THEN [cache |-> cache, next |-> n]
  ELSE LET r == RoleAddCache(cache, Head(roles), n)
       IN  RoleInitCache(Tail(roles), r.cache, r.next)

RECURSIVE ChannelInitCache(_, _, _)
\* ChannelManager._initCache
ChannelInitCache(chans, cache, n) ==
  IF chans = <<>> THEN [cache |-> cache, next |-> n]
  ELSE LET r == ChannelAddCache(cache, Head(chans), n)
       IN  ChannelInitCache(Tail(chans), r.cache, r.next)

\* new Guild(client, g): the guild object and the caches its managers seed
\* from the payload
NewGuild(g, n) ==
  LET rs == RoleInitCache(g.roles, EmptyCollection, n + 1)
      cs == ChannelInitCache(g.channels, EmptyCollection, rs.next)
  IN  [guild |-> [id |-> g.id, obj |-> n,
                  roles |-> rs.cache, channels |-> cs.cache,
                  members |-> EmptyCollection, slashCommands |-> EmptyCollection],
       next  |-> cs.next]

\* what constructing a Guild from g can do: a guild payload builds; the
\* RequestError that fetchGuild's catch hands on carries no roles or channels,
\* and the managers' _initCache either finds nothing to seed or throws on the
\* missing array
GuildCtorOutcomes(g) == IF g.error THEN {"built", "throws"} ELSE {"built"}

\* a Guild as a call's result
GuildView(g) == [kind |-> "Guild", id |-> g.id, obj |-> g.obj, guild_id |-> 0, def |-> 0]

----------------------------------------------------------------------------
(* The remote API *)

\* a request body.  form: "none" the empty object, "one" a command
\* definition made ready for the API, "whole" an array of definitions handed
\* to resolveApplicationCommandForApi as if it were one definition, "each" an
\* array of definitions each made ready, "edit" the fields of an edit
Body(form, defs, fields) == [form |-> form, defs |-> defs, fields |-> fields]
NoBody == Body("none", <<>>, {})

Request(method, ep, a, b, body) ==
  [method |-> method, ep |-> ep, a |-> a, b |-> b, body |-> body]

\* the arrays a guild payload may embed: the first n entities of the family,
\* for every n up to MaxEmbed (pairwise distinct ids, in order)
EmbeddedRoles ==
  {[j \in 1..n |-> Payload(j, -1, 0, 0)] : n \in 0..MaxEmbed}
EmbeddedChannels ==
  {[j \in 1..n |-> Payload(j, GuildChannelType, 0, 0)] : n \in 0..MaxEmbed}

\* the answers to GET GUILD(id): the guild with that id, or a failure
GuildResponses(id) ==
  {RequestError} \cup
  {[Payload(id, -1, 0, 0) EXCEPT !.roles = rs, !.channels = cs] :
     rs \in EmbeddedRoles, cs \in EmbeddedChannels}

\* the answers to GET CHANNEL(id)
ChannelResponses(id) ==
  {RequestError} \cup {Payload(id, ty, 0, 0) : ty \in ChannelTypes}

\* the answers to GET ROLE(guild, id)
RoleResponses(id) == {RequestError, Payload(id, -1, 0, 0)}

\* the answers to a DELETE
DeleteResponses == {RequestError, Payload(0, -1, 0, 0)}

----------------------------------------------------------------------------
(* Tasks: one per call *)

\* pc: "req" awaiting the answer to the call's own request, "guild" awaiting
\* the GET of a nested fetchGuild, "end" the function body is over (returned
\* or threw).  promise: the state of the promise the caller holds.  thrown:
\* the exception that escaped the body ("none" if none did).  reqs: the
\* requests the call issued, in order; replies: the remote's answers to them.
BaseTask ==
  [op |-> "none", id |-> 0, guild |-> 0, mgr |-> 0,
   checkCache |-> TRUE, cache |-> TRUE, isArray |-> FALSE, data |-> <<>>,
   fields |-> {}, arr |-> <<>>, pc |-> "end", promise |-> "pending",
   result |-> Undefined, err |-> "none", thrown |-> "none",
   reqs |-> <<>>, replies |-> <<>>, connected |-> FALSE, hit |-> FALSE]

\* the task returns v
Resolve(t, v) == [t EXCEPT !.pc = "end", !.promise = "resolved", !.result = v]
\* the task's promise rejects with e
Reject(t, e) == [t EXCEPT !.pc = "end", !.promise = "rejected", !.err = e]
\* an exception escapes the async executor handed to new Promise: the
\* executor is over, and nobody settles the promise
Throw(t, e) == [t EXCEPT !.pc = "end", !.thrown = e]
\* the task issues a request and awaits its answer
Await(t, pc, req) == [t EXCEPT !.pc = pc, !.reqs = Append(@, req)]

\* the remote answered the task's pending request with res
Reply(t, res) == [t EXCEPT !.replies = Append(@, res)]

Awaiting(t, op, pc) ==
  /\ t \in DOMAIN tasks
  /\ tasks[t].op = op
  /\ tasks[t].pc = pc

----------------------------------------------------------------------------
(* Client.fetchGuild and Client.fetchChannel *)

\* fetchGuild after its await: g is the payload, or the error that the catch
\* turned into a value; the Guild is built from it and stored under the
\* requested id
FetchGuildFinish(id, setToCache, g, outcome, gs, n) ==
  IF outcome = "throws"
  THEN [threw |-> TRUE, guilds |-> gs, next |-> n, guild |-> Undefined]
  ELSE LET built == NewGuild(g, n)
       IN  [threw  |-> FALSE,
            guilds |-> IF setToCache THEN Set(gs, id, built.guild) ELSE gs,
            next   |-> built.next,
            guild  |-> GuildView(built.guild)]

\* fetchGuild serving a cached guild whatever checkCache says
FetchGuild_AlwaysChecks(id, checkCache, setToCache) ==
  /\ Len(tasks) < MaxCalls
  /\ LET t == [BaseTask EXCEPT !.op = "fetchGuild", !.id = id, !.connected = user,
                               !.checkCache = checkCache, !.cache = setToCache]
     IN  tasks' = Append(tasks,
           IF Has(guilds, id)
           THEN [Resolve(t, GuildView(Get(guilds, id))) EXCEPT !.hit = TRUE]
           ELSE Await(t, "req", Request("GET", "GUILD", id, 0, NoBody)))
  /\ UNCHANGED <<user, guilds, channels, users, slashCommands, nextObj>>

FetchGuild(id, checkCache, setToCache) ==
  /\ Len(tasks) < MaxCalls
  /\ LET t == [BaseTask EXCEPT !.op = "fetchGuild", !.id = id, !.connected = user,
                               !.checkCache = checkCache, !.cache = setToCache]
     IN  tasks' = Append(tasks,
           IF checkCache /\ Has(guilds, id)
           THEN [Resolve(t, GuildView(Get(guilds, id))) EXCEPT !.hit = TRUE]
           ELSE Await(t, "req", Request("GET", "GUILD", id, 0, NoBody)))
  /\ UNCHANGED <<user, guilds, channels, users, slashCommands, nextObj>>

FetchGuildResume(t, g, outcome) ==
  /\ Awaiting(t, "fetchGuild", "req")
  /\ LET r == FetchGuildFinish(tasks[t].id, tasks[t].cache, g, outcome, guilds, nextObj)
     IN  /\ guilds' = r.guilds
         /\ nextObj' = r.next
         /\ tasks' = [tasks EXCEPT ![t] =
               IF r.threw THEN Reject(Reply(@, g), "TypeError")
               ELSE Resolve(Reply(@, g), r.guild)]
  /\ UNCHANGED <<user, channels, users, slashCommands>>

\* the entity fetchChannel builds from c: none for a type it does not know
\* (the error the catch handed on has no type at all)
FetchedChannel(c, n) ==
  CASE c.type = 0 -> Construct("TextChannel", c, n)
    [] c.type = 1 -> Construct("PrivateChannel", c, n)
    [] c.type = 2 -> Construct("VoiceChannel", c, n)
    [] c.type = 4 -> Construct("CategoryChannel", c, n)
    [] OTHER      -> Undefined

\* fetchChannel after its await: whatever was built, an entity or undefined,
\* is stored under the requested id
FetchChannelFinish(id, setToCache, c, cs, n) ==
  LET channel == FetchedChannel(c, n)
  IN  [channels |-> IF setToCache THEN Set(cs, id, channel) ELSE cs,
       next     |-> IF Truthy(channel) THEN n + 1 ELSE n,
       channel  |-> channel]

FetchChannel(id, checkCache, setToCache) ==
  /\ Len(tasks) < MaxCalls
  /\ LET t == [BaseTask EXCEPT !.op = "fetchChannel", !.id = id, !.connected = user,
                               !.checkCache = checkCache, !.cache = setToCache]
     IN  tasks' = Append(tasks,
           IF checkCache /\ Has(channels, id)
           THEN [Resolve(t, Get(channels, id)) EXCEPT !.hit = TRUE]
           ELSE Await(t, "req", Request("GET", "CHANNEL", id, 0, NoBody)))
  /\ UNCHANGED <<user, guilds, channels, users, slashCommands, nextObj>>

FetchChannelResume(t, c) ==
  /\ Awaiting(t, "fetchChannel", "req")
  /\ LET r == FetchChannelFinish(tasks[t].id, tasks[t].cache, c, channels, nextObj)
     IN  /\ channels' = r.channels
         /\ nextObj' = r.next
         /\ tasks' = [tasks EXCEPT ![t] = Resolve(Reply(@, c), r.channel)]
  /\ UNCHANGED <<user, guilds, users, slashCommands>>

----------------------------------------------------------------------------
(* RoleManager and ChannelManager: fetch and delete *)

\* the manager cache of the guild object mgr, reached through client.guilds;
\* a guild object that client.guilds no longer holds is out of sight
ManagerCurrent(g, mgr) == Has(guilds, g) /\ guilds[g].obj = mgr

\* the guilds after the RoleManager of guild object mgr set its cache to c
WithRoles(g, mgr, c) ==
  IF ManagerCurrent(g, mgr) THEN Set(guilds, g, [guilds[g] EXCEPT !.roles = c]) ELSE guilds

WithChannels(g, mgr, c) ==
  IF ManagerCurrent(g, mgr) THEN Set(guilds, g, [guilds[g] EXCEPT !.channels = c]) ELSE guilds

RoleCache(g, mgr) == IF ManagerCurrent(g, mgr) THEN guilds[g].roles ELSE EmptyCollection
ChannelCache(g, mgr) == IF ManagerCurrent(g, mgr) THEN guilds[g].channels ELSE EmptyCollection

RoleFetch(g, roleId) ==
  /\ Len(tasks) < MaxCalls
  /\ Has(guilds, g)
  /\ LET t == [BaseTask EXCEPT !.op = "RoleManager.fetch", !.id = roleId, !.guild = g,
                               !.mgr = guilds[g].obj, !.connected = user]
     IN  tasks' = Append(tasks,
           IF Truthy(Get(guilds[g].roles, roleId))
           THEN [Resolve(t, Get(guilds[g].roles, roleId)) EXCEPT !.hit = TRUE]
           ELSE Await(t, "req", Request("GET", "ROLE", guilds[g].id, roleId, NoBody)))
  /\ UNCHANGED <<user, guilds, channels, users, slashCommands, nextObj>>

\* a fetch that leaves an entry alone that got into the cache meanwhile
RoleFetchResume_KeepsFirst(t, res) ==
  /\ Awaiting(t, "RoleManager.fetch", "req")
  /\ IF res.error
     THEN /\ tasks' = [tasks EXCEPT ![t] = Reject(Reply(@, res), "RequestError")]
          /\ UNCHANGED <<guilds, nextObj>>
     ELSE LET c == RoleCache(tasks[t].guild, tasks[t].mgr)
              r == RoleAddCache(c, res, nextObj)
          IN  /\ guilds' = WithRoles(tasks[t].guild, tasks[t].mgr,
                                     IF Has(c, res.id) THEN c ELSE r.cache)
              /\ nextObj' = r.next
              /\ tasks' = [tasks EXCEPT ![t] = Resolve(Reply(@, res), r.ret)]
  /\ UNCHANGED <<user, channels, users, slashCommands>>

RoleFetchResume(t, res) ==
  /\ Awaiting(t, "RoleManager.fetch", "req")
  /\ IF res.error
     THEN /\ tasks' = [tasks EXCEPT ![t] = Reject(Reply(@, res), "RequestError")]
          /\ UNCHANGED <<guilds, nextObj>>
     ELSE LET r == RoleAddCache(RoleCache(tasks[t].guild, tasks[t].mgr), res, nextObj)
          IN  /\ guilds' = WithRoles(tasks[t].guild, tasks[t].mgr, r.cache)
              /\ nextObj' = r.next
              /\ tasks' = [tasks EXCEPT ![t] = Resolve(Reply(@, res), r.ret)]
  /\ UNCHANGED <<user, channels, users, slashCommands>>

\* a delete that leaves the eviction for after the remote call
RoleDelete_EvictLater(g, roleId) ==
  /\ Len(tasks) < MaxCalls
  /\ Has(guilds, g)
  /\ LET t == [BaseTask EXCEPT !.op = "RoleManager.delete", !.id = roleId, !.guild = g,
                               !.mgr = guilds[g].obj, !.connected = user]
     IN  tasks' = Append(tasks,
           Await(t, "req", Request("DELETE", "ROLE", guilds[g].id, roleId, NoBody)))
  /\ UNCHANGED <<user, guilds, channels, users, slashCommands, nextObj>>

RoleDelete(g, roleId) ==
  /\ Len(tasks) < MaxCalls
  /\ Has(guilds, g)
  /\ LET t == [BaseTask EXCEPT !.op = "RoleManager.delete", !.id = roleId, !.guild = g,
                               !.mgr = guilds[g].obj, !.connected = user]
     IN  /\ guilds' = WithRoles(g, guilds[g].obj, Delete(guilds[g].roles, roleId))
         /\ tasks' = Append(tasks,
              Await(t, "req", Request("DELETE", "ROLE", guilds[g].id, roleId, NoBody)))
  /\ UNCHANGED <<user, channels, users, slashCommands, nextObj>>

\* a delete that puts a role back under id when the DELETE failed
RoleDeleteResume_RollsBack(t, res) ==
  /\ Awaiting(t, "RoleManager.delete", "req")
  /\ tasks' = [tasks EXCEPT ![t] =
       IF res.error THEN Reject(Reply(@, res), "RequestError")
       ELSE Resolve(Reply(@, res), True)]
  /\ guilds' =
       IF res.error
       THEN WithRoles(tasks[t].guild, tasks[t].mgr,
                      Set(RoleCache(tasks[t].guild, tasks[t].mgr), tasks[t].id,
                          Construct("Role", Payload(tasks[t].id, -1, 0, 0), nextObj)))
       ELSE guilds
  /\ nextObj' = IF res.error THEN nextObj + 1 ELSE nextObj
  /\ UNCHANGED <<user, channels, users, slashCommands>>

RoleDeleteResume(t, res) ==
  /\ Awaiting(t, "RoleManager.delete", "req")
  /\ tasks' = [tasks EXCEPT ![t] =
       IF res.error THEN Reject(Reply(@, res), "RequestError")
       ELSE Resolve(Reply(@, res), True)]
  /\ UNCHANGED <<user, guilds, channels, users, slashCommands, nextObj>>

ChannelManagerFetch(g, channelId) ==
  /\ Len(tasks) < MaxCalls
  /\ Has(guilds, g)
  /\ LET t == [BaseTask EXCEPT !.op = "ChannelManager.fetch", !.id = channelId, !.guild = g,
                               !.mgr = guilds[g].obj, !.connected = user]
     IN  tasks' = Append(tasks,
           IF Truthy(Get(guilds[g].channels, channelId))
           THEN [Resolve(t, Get(guilds[g].channels, channelId)) EXCEPT !.hit = TRUE]
           ELSE Await(t, "req", Request("GET", "CHANNEL", channelId, 0, NoBody)))
  /\ UNCHANGED <<user, guilds, channels, users, slashCommands, nextObj>>

\* a fetch that drops its answer when a delete of the same channel was called
\* on the manager after it
ChannelManagerFetchResume_SkipsDeleted(t, res) ==
  /\ Awaiting(t, "ChannelManager.fetch", "req")
  /\ IF res.error
     THEN /\ tasks' = [tasks EXCEPT ![t] = Reject(Reply(@, res), "RequestError")]
          /\ UNCHANGED <<guilds, nextObj>>
     ELSE LET c == ChannelCache(tasks[t].guild, tasks[t].mgr)
              r == ChannelAddCache(c, res, nextObj)
              deleted == \E u \in DOMAIN tasks :
                           /\ u > t
                           /\ tasks[u].op = "ChannelManager.delete"
                           /\ tasks[u].mgr = tasks[t].mgr
                           /\ tasks[u].id = tasks[t].id
          IN  /\ guilds' = WithChannels(tasks[t].guild, tasks[t].mgr,
                                        IF deleted THEN c ELSE r.cache)
              /\ nextObj' = r.next
              /\ tasks' = [tasks EXCEPT ![t] = Resolve(Reply(@, res), r.ret)]
  /\ UNCHANGED <<user, channels, users, slashCommands>>

ChannelManagerFetchResume(t, res) ==
  /\ Awaiting(t, "ChannelManager.fetch", "req")
  /\ IF res.error
     THEN /\ tasks' = [tasks EXCEPT ![t] = Reject(Reply(@, res), "RequestError")]
          /\ UNCHANGED <<guilds, nextObj>>
     ELSE LET r == ChannelAddCache(ChannelCache(tasks[t].guild, tasks[t].mgr), res, nextObj)
          IN  /\ guilds' = WithChannels(tasks[t].guild, tasks[t].mgr, r.cache)
              /\ nextObj' = r.next
              /\ tasks' = [tasks EXCEPT ![t] = Resolve(Reply(@, res), r.ret)]
  /\ UNCHANGED <<user, channels, users, slashCommands>>

ChannelManagerDelete(g, channelId) ==
  /\ Len(tasks) < MaxCalls
  /\ Has(guilds, g)
  /\ LET t == [BaseTask EXCEPT !.op = "ChannelManager.delete", !.id = channelId, !.guild = g,
                               !.mgr = guilds[g].obj, !.connected = user]
     IN  /\ guilds' = WithChannels(g, guilds[g].obj, Delete(guilds[g].channels, channelId))
         /\ tasks' = Append(tasks,
              Await(t, "req", Request("DELETE", "CHANNEL", channelId, 0, NoBody)))
  /\ UNCHANGED <<user, channels, users, slashCommands, nextObj>>

ChannelManagerDeleteResume(t, res) ==
  /\ Awaiting(t, "ChannelManager.delete", "req")
  /\ tasks' = [tasks EXCEPT ![t] =
       IF res.error THEN Reject(Reply(@, res), "RequestError")
       ELSE Resolve(Reply(@, res), True)]
  /\ UNCHANGED <<user, guilds, channels, users, slashCommands, nextObj>>

----------------------------------------------------------------------------
(* The state after new Client(): every cache empty, no user yet *)

Init ==
  /\ user = FALSE
  /\ guilds = EmptyCollection
  /\ channels = EmptyCollection
  /\ users = EmptyCollection
  /\ slashCommands = EmptyCollection
  /\ tasks = <<>>
  /\ nextObj = 1

TaskIds == 1..MaxCalls

\* the session's own fetches
Next ==
  \/ \E id \in GuildIds, cc, sc \in BOOLEAN : FetchGuild(id, cc, sc)
  \/ \E t \in TaskIds :
       /\ Awaiting(t, "fetchGuild", "req")
       /\ \E g \in GuildResponses(tasks[t].id) :
            \E o \in GuildCtorOutcomes(g) : FetchGuildResume(t, g, o)
  \/ \E id \in Ids, cc, sc \in BOOLEAN : FetchChannel(id, cc, sc)
  \/ \E t \in TaskIds :
       /\ Awaiting(t, "fetchChannel", "req")
       /\ \E c \in ChannelResponses(tasks[t].id) : FetchChannelResume(t, c)

Spec == Init /\ [][Next]_vars

\* the guild-scoped managers, on the guilds that fetchGuild brought in
NextMgr ==
  \/ \E id \in GuildIds, cc, sc \in BOOLEAN : FetchGuild(id, cc, sc)
  \/ \E t \in TaskIds :
       /\ Awaiting(t, "fetchGuild", "req")
       /\ \E g \in GuildResponses(tasks[t].id) :
            \E o \in GuildCtorOutcomes(g) : FetchGuildResume(t, g, o)
  \/ \E g \in GuildIds, id \in Ids : RoleFetch(g, id)
  \/ \E t \in TaskIds :
       /\ Awaiting(t, "RoleManager.fetch", "req")
       /\ \E res \in RoleResponses(tasks[t].id) : RoleFetchResume(t, res)
  \/ \E g \in GuildIds, id \in Ids : RoleDelete(g, id)
  \/ \E t \in TaskIds, res \in DeleteResponses : RoleDeleteResume(t, res)
  \/ \E g \in GuildIds, id \in Ids : ChannelManagerFetch(g, id)
  \/ \E t \in TaskIds :
       /\ Awaiting(t, "ChannelManager.fetch", "req")
       /\ \E res \in ChannelResponses(tasks[t].id) : ChannelManagerFetchResume(t, res)
  \/ \E g \in GuildIds, id \in Ids : ChannelManagerDelete(g, id)
  \/ \E t \in TaskIds, res \in DeleteResponses : ChannelManagerDeleteResume(t, res)

SpecMgr == Init /\ [][NextMgr]_vars

----------------------------------------------------------------------------
(* RoleManager.edit and ChannelManager.edit *)

Names == 1..NumNames

\* an option that the caller left out
Absent == -1

\* the options of an edit: a position (roles only) and a name, either of
\* which may be left out, next to fields that play no part in the control flow
RoleEditInputs ==
  [position : {Absent} \cup 0..MaxPosition, name : {Absent} \cup Names]
ChannelEditInputs == [position : {Absent}, name : {Absent} \cup Names]

\* the body of the position PATCH: { id, position }
PositionBody(position) == Body("position", <<position>>, {"id", "position"})

\* JSON.stringify(options) with the name that options carries by now
OptionsBody(position, name) ==
  Body("options", <<name>>,
       {"name"} \cup (IF position = Absent THEN {} ELSE {"position"}))

\* the name in the body of an options PATCH
BodyName(body) == body.defs[1]

\* the answers to GET ROLE / GET CHANNEL during an edit: the entity under the
\* name the remote holds for it, or a failure
NamedResponses(id, type) ==
  {RequestError} \cup {Payload(id, type, 0, nm) : nm \in Names}

\* the answers to the options PATCH: the entity as patched, or a failure
OptionsResponses(id, type, body) ==
  {RequestError, Payload(id, type, 0, BodyName(body))}

\* the edit task of a call on the manager of the guild cached under g
EditTask(op, g, id, options) ==
  [BaseTask EXCEPT !.op = op, !.id = id, !.guild = g, !.mgr = guilds[g].obj,
                   !.connected = user,
                   !.data = <<options.position, options.name, guilds[g].id>>]

OptPosition(t) == t.data[1]
OptName(t) == t.data[2]
\* this.guild.id of the manager the task runs on
ManagerGuildId(t) == t.data[3]

\* the answers to the position PATCH
PositionResponses == {RequestError, Payload(0, -1, 0, 0)}

\* RoleManager.edit sending its options as they came, name or no name
RoleEditName_NoBackfill(t, cache) ==
  IF OptName(t) # Absent
  THEN Await(t, "req", Request("PATCH", "CREATE_ROLE", t.id, 0,
                               OptionsBody(OptPosition(t), OptName(t))))
  ELSE Await(t, "req", Request("PATCH", "CREATE_ROLE", t.id, 0,
                               OptionsBody(OptPosition(t), Absent)))

\* RoleManager.edit from the name check on: a missing name is taken from the
\* cached role, or the role is fetched first
RoleEditName(t, cache) ==
  IF OptName(t) # Absent
  THEN Await(t, "req", Request("PATCH", "CREATE_ROLE", t.id, 0,
                               OptionsBody(OptPosition(t), OptName(t))))
  ELSE IF Truthy(Get(cache, t.id))
  THEN Await([t EXCEPT !.hit = TRUE], "req",
             Request("PATCH", "CREATE_ROLE", t.id, 0,
                     OptionsBody(OptPosition(t), Get(cache, t.id).def)))
  ELSE Await(t, "fetch", Request("GET", "ROLE", ManagerGuildId(t), t.id, NoBody))

\* if (options.position): the position PATCH goes out for a position that is
\* truthy
RoleEdit(g, roleId, options) ==
  /\ Len(tasks) < MaxCalls
  /\ Has(guilds, g)
  /\ LET t == EditTask("RoleManager.edit", g, roleId, options)
     IN  tasks' = Append(tasks,
           IF options.position # Absent /\ options.position # 0
           THEN Await(t, "position", Request("PATCH", "ROLES", guilds[g].id, 0,
                                             PositionBody(options.position)))
           ELSE RoleEditName(t, guilds[g].roles))
  /\ UNCHANGED <<user, guilds, channels, users, slashCommands, nextObj>>

\* the position PATCH is answered
RoleEditPositioned(t, res) ==
  /\ Awaiting(t, "RoleManager.edit", "position")
  /\ LET me == Reply(tasks[t], res)
     IN  tasks' = [tasks EXCEPT ![t] =
           IF res.error THEN Reject(me, "RequestError")
           ELSE RoleEditName(me, RoleCache(me.guild, me.mgr))]
  /\ UNCHANGED <<user, guilds, channels, users, slashCommands, nextObj>>

\* the fetch inside the edit is answered: fetch caches the role, and its name
\* goes into the options
RoleEditFetched(t, res) ==
  /\ Awaiting(t, "RoleManager.edit", "fetch")
  /\ LET me == Reply(tasks[t], res)
         r == RoleAddCache(RoleCache(me.guild, me.mgr), res, nextObj)
     IN  IF res.error
         THEN /\ tasks' = [tasks EXCEPT ![t] = Reject(me, "RequestError")]
              /\ UNCHANGED <<guilds, nextObj>>
         ELSE /\ guilds' = WithRoles(me.guild, me.mgr, r.cache)
              /\ nextObj' = r.next
              /\ tasks' = [tasks EXCEPT ![t] =
                   Await(me, "req", Request("PATCH", "CREATE_ROLE", me.id, 0,
                                            OptionsBody(OptPosition(me), r.ret.def)))]
  /\ UNCHANGED <<user, channels, users, slashCommands>>

\* the options PATCH is answered: _addCache(d)
RoleEditResume(t, res) ==
  /\ Awaiting(t, "RoleManager.edit", "req")
  /\ LET me == Reply(tasks[t], res)
         r == RoleAddCache(RoleCache(me.guild, me.mgr), res, nextObj)
     IN  IF res.error
         THEN /\ tasks' = [tasks EXCEPT ![t] = Reject(me, "RequestError")]
              /\ UNCHANGED <<guilds, nextObj>>
         ELSE /\ guilds' = WithRoles(me.guild, me.mgr, r.cache)
              /\ nextObj' = r.next
              /\ tasks' = [tasks EXCEPT ![t] = Resolve(me, r.ret)]
  /\ UNCHANGED <<user, channels, users, slashCommands>>

ChannelManagerEdit(g, channelId, options) ==
  /\ Len(tasks) < MaxCalls
  /\ Has(guilds, g)
  /\ LET t == EditTask("ChannelManager.edit", g, channelId, options)
     IN  tasks' = Append(tasks,
           IF options.name # Absent
           THEN Await(t, "req", Request("PATCH", "CHANNEL", channelId, 0,
                                        OptionsBody(Absent, options.name)))
           ELSE IF Truthy(Get(guilds[g].channels, channelId))
           THEN Await([t EXCEPT !.hit = TRUE], "req",
                      Request("PATCH", "CHANNEL", channelId, 0,
                              OptionsBody(Absent, Get(guilds[g].channels, channelId).def)))
           ELSE Await(t, "fetch", Request("GET", "CHANNEL", channelId, 0, NoBody)))
  /\ UNCHANGED <<user, guilds, channels, users, slashCommands, nextObj>>

ChannelManagerEditFetched(t, res) ==
  /\ Awaiting(t, "ChannelManager.edit", "fetch")
  /\ LET me == Reply(tasks[t], res)
         r == ChannelAddCache(ChannelCache(me.guild, me.mgr), res, nextObj)
     IN  IF res.error
         THEN /\ tasks' = [tasks EXCEPT ![t] = Reject(me, "RequestError")]
              /\ UNCHANGED <<guilds, nextObj>>
         ELSE /\ guilds' = WithChannels(me.guild, me.mgr, r.cache)
              /\ nextObj' = r.next
              /\ tasks' = [tasks EXCEPT ![t] =
                   Await(me, "req", Request("PATCH", "CHANNEL", me.id, 0,
                                            OptionsBody(Absent, r.ret.def)))]
  /\ UNCHANGED <<user, channels, users, slashCommands>>

ChannelManagerEditResume(t, res) ==
  /\ Awaiting(t, "ChannelManager.edit", "req")
  /\ LET me == Reply(tasks[t], res)
         r == ChannelAddCache(ChannelCache(me.guild, me.mgr), res, nextObj)
     IN  IF res.error
         THEN /\ tasks' = [tasks EXCEPT ![t] = Reject(me, "RequestError")]
              /\ UNCHANGED <<guilds, nextObj>>
         ELSE /\ guilds' = WithChannels(me.guild, me.mgr, r.cache)
              /\ nextObj' = r.next
              /\ tasks' = [tasks EXCEPT ![t] = Resolve(me, r.ret)]
  /\ UNCHANGED <<user, channels, users, slashCommands>>

\* the last request of task t
LastRequest(t) == tasks[t].reqs[Len(tasks[t].reqs)]

\* the edits of the guild-scoped managers, on the guilds that fetchGuild
\* brought in
NextEdit ==
  \/ \E id \in GuildIds, cc, sc \in BOOLEAN : FetchGuild(id, cc, sc)
  \/ \E t \in TaskIds :
       /\ Awaiting(t, "fetchGuild", "req")
       /\ \E g \in GuildResponses(tasks[t].id) :
            \E o \in GuildCtorOutcomes(g) : FetchGuildResume(t, g, o)
  \/ \E g \in GuildIds, id \in Ids, o \in RoleEditInputs : RoleEdit(g, id, o)
  \/ \E t \in TaskIds, res \in PositionResponses : RoleEditPositioned(t, res)
  \/ \E t \in TaskIds :
       /\ Awaiting(t, "RoleManager.edit", "fetch")
       /\ \E res \in NamedResponses(tasks[t].id, -1) : RoleEditFetched(t, res)
  \/ \E t \in TaskIds :
       /\ Awaiting(t, "RoleManager.edit", "req")
       /\ \E res \in OptionsResponses(tasks[t].id, -1, LastRequest(t).body) :
            RoleEditResume(t, res)
  \/ \E g \in GuildIds, id \in Ids, o \in ChannelEditInputs : ChannelManagerEdit(g, id, o)
  \/ \E t \in TaskIds :
       /\ Awaiting(t, "ChannelManager.edit", "fetch")
       /\ \E res \in NamedResponses(tasks[t].id, GuildChannelType) :
            ChannelManagerEditFetched(t, res)
  \/ \E t \in TaskIds :
       /\ Awaiting(t, "ChannelManager.edit", "req")
       /\ \E res \in OptionsResponses(tasks[t].id, GuildChannelType, LastRequest(t).body) :
            ChannelManagerEditResume(t, res)

SpecEdit == Init /\ [][NextEdit]_vars

----------------------------------------------------------------------------
(* Application commands: the global ones *)

\* the READY event of the gateway sets client.user
Ready ==
  /\ ~user
  /\ user' = TRUE
  /\ UNCHANGED <<guilds, channels, users, slashCommands, tasks, nextObj>>

\* resolveApplicationCommandForApi(x): x made ready for the API; handed an
\* array, it treats the array as one definition
ResolveApplicationCommandForApi(isArray, defs) ==
  Body(IF isArray THEN "whole" ELSE "one", defs, {})

\* the body of the j-th POST of createApplicationCommand and of
\* createGuildApplicationCommand: in the loop over the array the function is
\* handed data, the array, not cmd, its j-th element
CreateBody(isArray, data, j) == ResolveApplicationCommandForApi(isArray, data)

\* what a create call may be handed: one definition, or an array of n
\* pairwise different ones
CreateInputs ==
  {[isArray |-> FALSE, defs |-> <<1>>]} \cup
  {[isArray |-> TRUE, defs |-> [j \in 1..n |-> j]] : n \in 0..MaxDefs}

\* the arrays a bulk overwrite may be handed: no longer than the remote has
\* command ids to give
BulkInputs ==
  {[j \in 1..n |-> j] : n \in 0..(IF MaxDefs < NumIds THEN MaxDefs ELSE NumIds)}

\* the definition a well-formed command body carries
BodyDef(body) == IF body.form = "one" THEN body.defs[1] ELSE 0

\* the answers to a POST of a command: the command under the id the remote
\* gave it, or a failure
PostResponses(gid, body) ==
  {RequestError} \cup {Payload(id, -1, gid, BodyDef(body)) : id \in Ids}

\* the answers to a GET or a PATCH of the command id
CommandResponses(id, gid) == {RequestError, Payload(id, -1, gid, 0)}

\* the answers to a PATCH of the command id: the command as it is after the
\* edit, with the definition the remote now holds for it, or a failure
PatchResponses(id, gid) ==
  {RequestError} \cup {Payload(id, -1, gid, d) : d \in 0..1}

\* the sequences of length n over S without repetition
InjectiveSeqs(S, n) ==
  {q \in [1..n -> S] : \A j, k \in 1..n : j # k => q[j] # q[k]}

\* the answers to a PUT of defs: the commands that now exist, one for each
\* definition, or a failure
PutResponses(gid, defs) ==
  {RequestError} \cup
  {[Payload(0, -1, gid, 0) EXCEPT
      !.list = [j \in 1..Len(defs) |-> Payload(ids[j], -1, gid, defs[j])]] :
     ids \in InjectiveSeqs(Ids, Len(defs))}

\* the fields an edit may carry
EditFields == {"name", "description", "options", "defaultPermissions"}
\* the edits a call may be handed: none of the fields, one, all four
EditInputs == {{}, {"name"}, EditFields}

\* the test that lets an edit through: every one of the four fields is there
EditAllowed(fields) ==
  /\ "name" \in fields
  /\ "description" \in fields
  /\ "options" \in fields
  /\ "defaultPermissions" \in fields

\* command.updateData(cmd): the same object, carrying the payload's fields
UpdateData(command, cmd) ==
  [command EXCEPT !.id = cmd.id, !.guild_id = cmd.guild_id, !.def = cmd.def]

RECURSIVE ConstructAll(_, _)
\* new ApplicationCommand(this, cmd) for every cmd of a list
ConstructAll(list, n) ==
  IF list = <<>> THEN <<>>
  ELSE <<Construct("ApplicationCommand", Head(list), n)>> \o ConstructAll(Tail(list), n + 1)

RECURSIVE SetAll(_, _)
\* cache.set(command.id, command) for every command of a list, in order
SetAll(cache, commands) ==
  IF commands = <<>> THEN cache
  ELSE SetAll(Set(cache, Head(commands).id, Head(commands)), Tail(commands))

NotConnected == "client isn't connected"

CommandTask(op, id, g, checkCache, cache) ==
  [BaseTask EXCEPT !.op = op, !.id = id, !.guild = g, !.checkCache = checkCache,
                   !.cache = cache, !.connected = user]

CreateApplicationCommand(in, cache) ==
  /\ Len(tasks) < MaxCmdCalls
  /\ LET t == [CommandTask("createApplicationCommand", 0, 0, TRUE, cache)
                 EXCEPT !.isArray = in.isArray, !.data = in.defs]
     IN  tasks' = Append(tasks,
           IF ~user THEN Reject(t, NotConnected)
           ELSE IF in.isArray /\ in.defs = <<>> THEN Resolve(t, Undefined)
           ELSE Await(t, "req", Request("POST", "APPLICATION_GLOBAL_COMMANDS", 0, 0,
                                        CreateBody(in.isArray, in.defs, 1))))
  /\ UNCHANGED <<user, guilds, channels, users, slashCommands, nextObj>>

\* the array loop going on to the next definition after a failed POST
CreateApplicationCommandResume_SkipsFailed(t, res) ==
  /\ Awaiting(t, "createApplicationCommand", "req")
  /\ LET me == Reply(tasks[t], res)
         command == Construct("ApplicationCommand", res, nextObj)
         more == [me EXCEPT !.arr = Append(@, command)]
         issued == Len(SelectSeq(me.reqs, LAMBDA r : r.method = "POST"))
     IN  IF res.error
         THEN /\ tasks' = [tasks EXCEPT ![t] =
                   IF me.isArray /\ issued < Len(me.data)
                   THEN Await(me, "req",
                          Request("POST", "APPLICATION_GLOBAL_COMMANDS", 0, 0,
                                  CreateBody(TRUE, me.data, issued + 1)))
                   ELSE Throw(me, "RequestError")]
              /\ UNCHANGED <<slashCommands, nextObj>>
         ELSE /\ slashCommands' =
                   IF me.cache THEN Set(slashCommands, command.id, command) ELSE slashCommands
              /\ nextObj' = nextObj + 1
              /\ tasks' = [tasks EXCEPT ![t] =
                   IF ~me.isArray THEN Resolve(me, command)
                   ELSE IF Len(more.arr) = Len(me.data) THEN Resolve(more, Undefined)
                   ELSE Await(more, "req",
                          Request("POST", "APPLICATION_GLOBAL_COMMANDS", 0, 0,
                                  CreateBody(TRUE, me.data, Len(more.arr) + 1)))]
  /\ UNCHANGED <<user, guilds, channels, users>>

CreateApplicationCommandResume(t, res) ==
  /\ Awaiting(t, "createApplicationCommand", "req")
  /\ LET me == Reply(tasks[t], res)
         command == Construct("ApplicationCommand", res, nextObj)
         more == [me EXCEPT !.arr = Append(@, command)]
     IN  IF res.error
         THEN /\ tasks' = [tasks EXCEPT ![t] = Throw(me, "RequestError")]
              /\ UNCHANGED <<slashCommands, nextObj>>
         ELSE /\ slashCommands' =
                   IF me.cache THEN Set(slashCommands, command.id, command) ELSE slashCommands
              /\ nextObj' = nextObj + 1
              /\ tasks' = [tasks EXCEPT ![t] =
                   IF ~me.isArray THEN Resolve(me, command)
                   ELSE IF Len(more.arr) = Len(me.data) THEN Resolve(more, Undefined)
                   ELSE Await(more, "req",
                          Request("POST", "APPLICATION_GLOBAL_COMMANDS", 0, 0,
                                  CreateBody(TRUE, me.data, Len(more.arr) + 1)))]
  /\ UNCHANGED <<user, guilds, channels, users>>

FetchApplicationCommand(id, checkCache, cache) ==
  /\ Len(tasks) < MaxCmdCalls
  /\ LET t == CommandTask("fetchApplicationCommand", id, 0, checkCache, cache)
     IN  tasks' = Append(tasks,
           IF ~user THEN Reject(t, NotConnected)
           ELSE IF checkCache /\ Has(slashCommands, id)
           THEN [Resolve(t, Get(slashCommands, id)) EXCEPT !.hit = TRUE]
           ELSE Await(t, "req", Request("GET", "APPLICATION_GLOBAL_COMMAND", id, 0, NoBody)))
  /\ UNCHANGED <<user, guilds, channels, users, slashCommands, nextObj>>

FetchApplicationCommandResume(t, res) ==
  /\ Awaiting(t, "fetchApplicationCommand", "req")
  /\ LET me == Reply(tasks[t], res)
         command == Construct("ApplicationCommand", res, nextObj)
     IN  IF res.error
         THEN /\ tasks' = [tasks EXCEPT ![t] = Throw(me, "RequestError")]
              /\ UNCHANGED <<slashCommands, nextObj>>
         ELSE /\ slashCommands' =
                   IF me.cache THEN Set(slashCommands, command.id, command) ELSE slashCommands
              /\ nextObj' = nextObj + 1
              /\ tasks' = [tasks EXCEPT ![t] = Resolve(me, command)]
  /\ UNCHANGED <<user, guilds, channels, users>>

\* the end of an edit that builds a new command whether or not one is cached
EditFinish_AlwaysBuilds(cache, id, cmd, setToCache, n) ==
  LET command == Construct("ApplicationCommand", cmd, n)
  IN  [cache   |-> IF setToCache THEN Set(cache, command.id, command) ELSE cache,
       command |-> command,
       next    |-> n + 1]

\* the end of an edit: a cached command is updated where it is, an uncached
\* one is built; cache is the command cache the edit looks in
EditFinish(cache, id, cmd, setToCache, n) ==
  LET cached == Has(cache, id)
      command == IF cached THEN UpdateData(cache[id], cmd)
                 ELSE Construct("ApplicationCommand", cmd, n)
      merged == IF cached THEN Set(cache, id, command) ELSE cache
  IN  [cache   |-> IF setToCache THEN Set(merged, command.id, command) ELSE merged,
       command |-> command,
       next    |-> IF cached THEN n ELSE n + 1]

\* the edit looking at its fields before it looks at client.user
EditApplicationCommand_ValidatesFirst(id, fields, cache) ==
  /\ Len(tasks) < MaxCmdCalls
  /\ LET t == [CommandTask("editApplicationCommand", id, 0, TRUE, cache)
                 EXCEPT !.fields = fields]
     IN  tasks' = Append(tasks,
           IF ~EditAllowed(fields)
           THEN Reject(t, "you need to change one options or more")
           ELSE IF ~user THEN Reject(t, NotConnected)
           ELSE Await(t, "req", Request("PATCH", "APPLICATION_GLOBAL_COMMAND", id, 0,
                                        Body("edit", <<>>, fields))))
  /\ UNCHANGED <<user, guilds, channels, users, slashCommands, nextObj>>

EditApplicationCommand(id, fields, cache) ==
  /\ Len(tasks) < MaxCmdCalls
  /\ LET t == [CommandTask("editApplicationCommand", id, 0, TRUE, cache)
                 EXCEPT !.fields = fields]
     IN  tasks' = Append(tasks,
           IF ~user THEN Reject(t, NotConnected)
           ELSE IF ~EditAllowed(fields)
           THEN Reject(t, "you need to change one options or more")
           ELSE Await(t, "req", Request("PATCH", "APPLICATION_GLOBAL_COMMAND", id, 0,
                                        Body("edit", <<>>, fields))))
  /\ UNCHANGED <<user, guilds, channels, users, slashCommands, nextObj>>

EditApplicationCommandResume(t, res) ==
  /\ Awaiting(t, "editApplicationCommand", "req")
  /\ LET me == Reply(tasks[t], res)
         r == EditFinish(slashCommands, me.id, res, me.cache, nextObj)
     IN  IF res.error
         THEN /\ tasks' = [tasks EXCEPT ![t] = Throw(me, "RequestError")]
              /\ UNCHANGED <<slashCommands, nextObj>>
         ELSE /\ slashCommands' = r.cache
              /\ nextObj' = r.next
              /\ tasks' = [tasks EXCEPT ![t] = Resolve(me, r.command)]
  /\ UNCHANGED <<user, guilds, channels, users>>

\* a global delete that evicts at the call, as the managers' delete does
DeleteApplicationCommand_EvictsFirst(id) ==
  /\ Len(tasks) < MaxCmdCalls
  /\ LET t == CommandTask("deleteApplicationCommand", id, 0, TRUE, TRUE)
     IN  tasks' = Append(tasks,
           IF ~user THEN Reject(t, NotConnected)
           ELSE Await(t, "req", Request("DELETE", "APPLICATION_GLOBAL_COMMAND", id, 0, NoBody)))
  /\ slashCommands' = IF user THEN Delete(slashCommands, id) ELSE slashCommands
  /\ UNCHANGED <<user, guilds, channels, users, nextObj>>


DeleteApplicationCommand(id) ==
  /\ Len(tasks) < MaxCmdCalls
  /\ LET t == CommandTask("deleteApplicationCommand", id, 0, TRUE, TRUE)
     IN  tasks' = Append(tasks,
           IF ~user THEN Reject(t, NotConnected)
           ELSE Await(t, "req", Request("DELETE", "APPLICATION_GLOBAL_COMMAND", id, 0, NoBody)))
  /\ UNCHANGED <<user, guilds, channels, users, slashCommands, nextObj>>

DeleteApplicationCommandResume(t, res) ==
  /\ Awaiting(t, "deleteApplicationCommand", "req")
  /\ LET me == Reply(tasks[t], res)
     IN  IF res.error
         THEN /\ tasks' = [tasks EXCEPT ![t] = Throw(me, "RequestError")]
              /\ UNCHANGED slashCommands
         ELSE /\ slashCommands' = Delete(slashCommands, me.id)
              /\ tasks' = [tasks EXCEPT ![t] = Resolve(me, Undefined)]
  /\ UNCHANGED <<user, guilds, channels, users, nextObj>>

BulkOverwriteApplicationCommands(defs, cache) ==
  /\ Len(tasks) < MaxCmdCalls
  /\ LET t == [CommandTask("bulkOverwriteApplicationCommands", 0, 0, TRUE, cache)
                 EXCEPT !.isArray = TRUE, !.data = defs]
     IN  tasks' = Append(tasks,
           IF ~user THEN Reject(t, NotConnected)
           ELSE Await(t, "req", Request("PUT", "APPLICATION_GLOBAL_COMMANDS", 0, 0,
                                        Body("each", defs, {}))))
  /\ UNCHANGED <<user, guilds, channels, users, slashCommands, nextObj>>

BulkOverwriteApplicationCommandsResume(t, res) ==
  /\ Awaiting(t, "bulkOverwriteApplicationCommands", "req")
  /\ LET me == Reply(tasks[t], res)
         cmds == ConstructAll(res.list, nextObj)
     IN  IF res.error
         THEN /\ tasks' = [tasks EXCEPT ![t] = Throw(me, "RequestError")]
              /\ UNCHANGED <<slashCommands, nextObj>>
         ELSE /\ slashCommands' = IF me.cache THEN SetAll(slashCommands, cmds) ELSE slashCommands
              /\ nextObj' = nextObj + Len(cmds)
              /\ tasks' = [tasks EXCEPT ![t] = Resolve([me EXCEPT !.arr = cmds], Undefined)]
  /\ UNCHANGED <<user, guilds, channels, users>>

----------------------------------------------------------------------------
(* Application commands: the guild-scoped ones *)

\* the answers to the GET of a nested fetchGuild(id)
NestedGuildResponses(id) ==
  {g \in GuildResponses(id) : g.error \/ (g.roles = <<>> /\ g.channels = <<>>)}

\* this.guilds.get(g).slashCommands.set(command.id, command)
SetGuildCommand(gs, g, command) ==
  Set(gs, g, [gs[g] EXCEPT !.slashCommands = Set(@, command.id, command)])

GuildGet(g) == Request("GET", "GUILD", g, 0, NoBody)

\* the POST that an iteration of createGuildApplicationCommand comes to, once
\* the guild is in client.guilds
GuildCreatePost(t, gs) ==
  IF ~Has(gs, t.guild) THEN Await(t, "guild", GuildGet(t.guild))
  ELSE Await(t, "req", Request("POST", "APPLICATION_GUILD_COMMANDS", t.guild, 0,
                               CreateBody(t.isArray, t.data, Len(t.arr) + 1)))

CreateGuildApplicationCommand(g, in, cache) ==
  /\ Len(tasks) < MaxCmdCalls
  /\ LET t == [CommandTask("createGuildApplicationCommand", 0, g, TRUE, cache)
                 EXCEPT !.isArray = in.isArray, !.data = in.defs]
     IN  tasks' = Append(tasks,
           IF ~user THEN Reject(t, NotConnected)
           ELSE IF in.isArray /\ in.defs = <<>> THEN Resolve(t, Undefined)
           ELSE GuildCreatePost(t, guilds))
  /\ UNCHANGED <<user, guilds, channels, users, slashCommands, nextObj>>

\* a nested fetchGuild is answered: the guild is stored, and the call goes on
\* with next(me, guilds'); a fetchGuild that throws takes the executor down
NestedGuildResume(t, op, g, outcome, next(_, _)) ==
  /\ Awaiting(t, op, "guild")
  /\ LET me == Reply(tasks[t], g)
         r == FetchGuildFinish(me.guild, TRUE, g, outcome, guilds, nextObj)
     IN  /\ guilds' = r.guilds
         /\ nextObj' = r.next
         /\ tasks' = [tasks EXCEPT ![t] =
               IF r.threw THEN Throw(me, "TypeError") ELSE next(me, r.guilds)]
  /\ UNCHANGED <<user, channels, users, slashCommands>>

CreateGuildApplicationCommandGuild(t, g, outcome) ==
  NestedGuildResume(t, "createGuildApplicationCommand", g, outcome, GuildCreatePost)

CreateGuildApplicationCommandResume(t, res) ==
  /\ Awaiting(t, "createGuildApplicationCommand", "req")
  /\ LET me == Reply(tasks[t], res)
         command == Construct("ApplicationCommand", res, nextObj)
         more == [me EXCEPT !.arr = Append(@, command)]
         gs == IF me.cache THEN SetGuildCommand(guilds, me.guild, command) ELSE guilds
     IN  IF res.error
         THEN /\ tasks' = [tasks EXCEPT ![t] = Throw(me, "RequestError")]
              /\ UNCHANGED <<guilds, nextObj>>
         ELSE /\ guilds' = gs
              /\ nextObj' = nextObj + 1
              /\ tasks' = [tasks EXCEPT ![t] =
                   IF ~me.isArray THEN Resolve(me, command)
                   ELSE IF Len(more.arr) = Len(me.data) THEN Resolve(more, Undefined)
                   ELSE GuildCreatePost(more, gs)]
  /\ UNCHANGED <<user, channels, users, slashCommands>>

\* fetchGuildApplicationCommand once the guild is in client.guilds
GuildFetchGet(t, gs) ==
  IF t.checkCache /\ Has(gs[t.guild].slashCommands, t.id)
  THEN [Resolve(t, Get(gs[t.guild].slashCommands, t.id)) EXCEPT !.hit = TRUE]
  ELSE Await(t, "req", Request("GET", "APPLICATION_GUILD_COMMAND", t.guild, t.id, NoBody))

FetchGuildApplicationCommand(g, id, checkCache, cache) ==
  /\ Len(tasks) < MaxCmdCalls
  /\ LET t == CommandTask("fetchGuildApplicationCommand", id, g, checkCache, cache)
     IN  tasks' = Append(tasks,
           IF ~user THEN Reject(t, NotConnected)
           ELSE IF ~Has(guilds, g) THEN Await(t, "guild", GuildGet(g))
           ELSE GuildFetchGet(t, guilds))
  /\ UNCHANGED <<user, guilds, channels, users, slashCommands, nextObj>>

FetchGuildApplicationCommandGuild(t, g, outcome) ==
  NestedGuildResume(t, "fetchGuildApplicationCommand", g, outcome, GuildFetchGet)

FetchGuildApplicationCommandResume(t, res) ==
  /\ Awaiting(t, "fetchGuildApplicationCommand", "req")
  /\ LET me == Reply(tasks[t], res)
         command == Construct("ApplicationCommand", res, nextObj)
     IN  IF res.error
         THEN /\ tasks' = [tasks EXCEPT ![t] = Throw(me, "RequestError")]
              /\ UNCHANGED <<guilds, nextObj>>
         ELSE /\ guilds' = IF me.cache THEN SetGuildCommand(guilds, me.guild, command) ELSE guilds
              /\ nextObj' = nextObj + 1
              /\ tasks' = [tasks EXCEPT ![t] = Resolve(me, command)]
  /\ UNCHANGED <<user, channels, users, slashCommands>>

EditGuildApplicationCommand(g, id, fields, cache) ==
  /\ Len(tasks) < MaxCmdCalls
  /\ LET t == [CommandTask("editGuildApplicationCommand", id, g, TRUE, cache)
                 EXCEPT !.fields = fields]
     IN  tasks' = Append(tasks,
           IF ~user THEN Reject(t, NotConnected)
           ELSE IF ~EditAllowed(fields)
           THEN Reject(t, "you need to change one options or more")
           ELSE Await(t, "req", Request("PATCH", "APPLICATION_GUILD_COMMAND", g, id,
                                        Body("edit", <<>>, fields))))
  /\ UNCHANGED <<user, guilds, channels, users, slashCommands, nextObj>>

\* editGuildApplicationCommand after the PATCH, with the guild in gs: cmd is
\* merged into the guild's command cache
GuildEditFinish(gs, t, cmd, n) ==
  LET r == EditFinish(gs[t.guild].slashCommands, t.id, cmd, t.cache, n)
  IN  [guilds  |-> Set(gs, t.guild, [gs[t.guild] EXCEPT !.slashCommands = r.cache]),
       command |-> r.command,
       next    |-> r.next]

\* the PATCH is answered; the guild is fetched only now, if it is not cached
EditGuildApplicationCommandResume(t, res) ==
  /\ Awaiting(t, "editGuildApplicationCommand", "req")
  /\ LET me == Reply(tasks[t], res)
         r == GuildEditFinish(guilds, me, res, nextObj)
     IN  IF res.error
         THEN /\ tasks' = [tasks EXCEPT ![t] = Throw(me, "RequestError")]
              /\ UNCHANGED <<guilds, nextObj>>
         ELSE IF ~Has(guilds, me.guild)
         THEN /\ tasks' = [tasks EXCEPT ![t] = Await(me, "guild", GuildGet(me.guild))]
              /\ UNCHANGED <<guilds, nextObj>>
         ELSE /\ guilds' = r.guilds
              /\ nextObj' = r.next
              /\ tasks' = [tasks EXCEPT ![t] = Resolve(me, r.command)]
  /\ UNCHANGED <<user, channels, users, slashCommands>>

\* the guild fetched after the PATCH is answered: the edit ends on it
EditGuildApplicationCommandGuild(t, g, outcome) ==
  /\ Awaiting(t, "editGuildApplicationCommand", "guild")
  /\ LET me == Reply(tasks[t], g)
         f == FetchGuildFinish(me.guild, TRUE, g, outcome, guilds, nextObj)
         r == GuildEditFinish(f.guilds, me, me.replies[1], f.next)
     IN  IF f.threw
         THEN /\ tasks' = [tasks EXCEPT ![t] = Throw(me, "TypeError")]
              /\ UNCHANGED <<guilds, nextObj>>
         ELSE /\ guilds' = r.guilds
              /\ nextObj' = r.next
              /\ tasks' = [tasks EXCEPT ![t] = Resolve(me, r.command)]
  /\ UNCHANGED <<user, channels, users, slashCommands>>

DeleteGuildApplicationCommand(g, id) ==
  /\ Len(tasks) < MaxCmdCalls
  /\ LET t == CommandTask("deleteGuildApplicationCommand", id, g, TRUE, TRUE)
     IN  tasks' = Append(tasks,
           IF ~user THEN Reject(t, NotConnected)
           ELSE Await(t, "req", Request("DELETE", "APPLICATION_GUILD_COMMAND", g, id, NoBody)))
  /\ UNCHANGED <<user, guilds, channels, users, slashCommands, nextObj>>

\* the guild delete reaching into the session's command cache as well
DeleteGuildApplicationCommandResume_AlsoGlobal(t, res) ==
  /\ Awaiting(t, "deleteGuildApplicationCommand", "req")
  /\ LET me == Reply(tasks[t], res)
     IN  IF res.error
         THEN /\ tasks' = [tasks EXCEPT ![t] = Throw(me, "RequestError")]
              /\ UNCHANGED <<guilds, slashCommands>>
         ELSE /\ guilds' =
                   IF Has(guilds, me.guild)
                   THEN Set(guilds, me.guild,
                            [guilds[me.guild] EXCEPT !.slashCommands = Delete(@, me.id)])
                   ELSE guilds
              /\ slashCommands' = Delete(slashCommands, me.id)
              /\ tasks' = [tasks EXCEPT ![t] = Resolve(me, Undefined)]
  /\ UNCHANGED <<user, channels, users, nextObj>>

DeleteGuildApplicationCommandResume(t, res) ==
  /\ Awaiting(t, "deleteGuildApplicationCommand", "req")
  /\ LET me == Reply(tasks[t], res)
     IN  IF res.error
         THEN /\ tasks' = [tasks EXCEPT ![t] = Throw(me, "RequestError")]
              /\ UNCHANGED guilds
         ELSE /\ guilds' =
                   IF Has(guilds, me.guild)
                   THEN Set(guilds, me.guild,
                            [guilds[me.guild] EXCEPT !.slashCommands = Delete(@, me.id)])
                   ELSE guilds
              /\ tasks' = [tasks EXCEPT ![t] = Resolve(me, Undefined)]
  /\ UNCHANGED <<user, channels, users, slashCommands, nextObj>>

\* the PUT of bulkOverwriteGuildApplicationCommands
GuildBulkPut(t, gs) ==
  Await(t, "req", Request("PUT", "APPLICATION_GUILD_COMMANDS", t.guild, 0,
                          Body("each", t.data, {})))

BulkOverwriteGuildApplicationCommands(g, defs, cache) ==
  /\ Len(tasks) < MaxCmdCalls
  /\ LET t == [CommandTask("bulkOverwriteGuildApplicationCommands", 0, g, TRUE, cache)
                 EXCEPT !.isArray = TRUE, !.data = defs]
     IN  tasks' = Append(tasks,
           IF ~user THEN Reject(t, NotConnected)
           ELSE IF ~Has(guilds, g) THEN Await(t, "guild", GuildGet(g))
           ELSE GuildBulkPut(t, guilds))
  /\ UNCHANGED <<user, guilds, channels, users, slashCommands, nextObj>>

BulkOverwriteGuildApplicationCommandsGuild(t, g, outcome) ==
  NestedGuildResume(t, "bulkOverwriteGuildApplicationCommands", g, outcome, GuildBulkPut)

\* the commands of the answer go into this.slashCommands, the session's cache
BulkOverwriteGuildApplicationCommandsResume(t, res) ==
  /\ Awaiting(t, "bulkOverwriteGuildApplicationCommands", "req")
  /\ LET me == Reply(tasks[t], res)
         cmds == ConstructAll(res.list, nextObj)
     IN  IF res.error
         THEN /\ tasks' = [tasks EXCEPT ![t] = Throw(me, "RequestError")]
              /\ UNCHANGED <<slashCommands, nextObj>>
         ELSE /\ slashCommands' = IF me.cache THEN SetAll(slashCommands, cmds) ELSE slashCommands
              /\ nextObj' = nextObj + Len(cmds)
              /\ tasks' = [tasks EXCEPT ![t] = Resolve([me EXCEPT !.arr = cmds], Undefined)]
  /\ UNCHANGED <<user, guilds, channels, users>>

CmdTaskIds == 1..MaxCmdCalls

\* a nested fetchGuild of task t with op is answered
NestedAnswer(t, op, Resume(_, _, _)) ==
  /\ Awaiting(t, op, "guild")
  /\ \E g \in NestedGuildResponses(tasks[t].guild) :
       \E o \in GuildCtorOutcomes(g) : Resume(t, g, o)

\* the session's application-command operations
NextCmd ==
  \/ Ready
  \/ \E in \in CreateInputs, c \in BOOLEAN : CreateApplicationCommand(in, c)
  \/ \E t \in CmdTaskIds :
       /\ Awaiting(t, "createApplicationCommand", "req")
       /\ \E res \in PostResponses(0, tasks[t].reqs[Len(tasks[t].reqs)].body) :
            CreateApplicationCommandResume(t, res)
  \/ \E id \in Ids, cc, c \in BOOLEAN : FetchApplicationCommand(id, cc, c)
  \/ \E t \in CmdTaskIds :
       /\ Awaiting(t, "fetchApplicationCommand", "req")
       /\ \E res \in CommandResponses(tasks[t].id, 0) : FetchApplicationCommandResume(t, res)
  \/ \E id \in Ids, f \in EditInputs, c \in BOOLEAN : EditApplicationCommand(id, f, c)
  \/ \E t \in CmdTaskIds :
       /\ Awaiting(t, "editApplicationCommand", "req")
       /\ \E res \in PatchResponses(tasks[t].id, 0) : EditApplicationCommandResume(t, res)
  \/ \E id \in Ids : DeleteApplicationCommand(id)
  \/ \E t \in CmdTaskIds, res \in DeleteResponses : DeleteApplicationCommandResume(t, res)
  \/ \E defs \in BulkInputs, c \in BOOLEAN : BulkOverwriteApplicationCommands(defs, c)
  \/ \E t \in CmdTaskIds :
       /\ Awaiting(t, "bulkOverwriteApplicationCommands", "req")
       /\ \E res \in PutResponses(0, tasks[t].data) :
            BulkOverwriteApplicationCommandsResume(t, res)
  \/ \E g \in GuildIds, in \in CreateInputs, c \in BOOLEAN :
       CreateGuildApplicationCommand(g, in, c)
  \/ \E t \in CmdTaskIds :
       NestedAnswer(t, "createGuildApplicationCommand", CreateGuildApplicationCommandGuild)
  \/ \E t \in CmdTaskIds :
       /\ Awaiting(t, "createGuildApplicationCommand", "req")
       /\ \E res \in PostResponses(tasks[t].guild, tasks[t].reqs[Len(tasks[t].reqs)].body) :
            CreateGuildApplicationCommandResume(t, res)
  \/ \E g \in GuildIds, id \in Ids, cc, c \in BOOLEAN :
       FetchGuildApplicationCommand(g, id, cc, c)
  \/ \E t \in CmdTaskIds :
       NestedAnswer(t, "fetchGuildApplicationCommand", FetchGuildApplicationCommandGuild)
  \/ \E t \in CmdTaskIds :
       /\ Awaiting(t, "fetchGuildApplicationCommand", "req")
       /\ \E res \in CommandResponses(tasks[t].id, tasks[t].guild) :
            FetchGuildApplicationCommandResume(t, res)
  \/ \E g \in GuildIds, id \in Ids, f \in EditInputs, c \in BOOLEAN :
       EditGuildApplicationCommand(g, id, f, c)
  \/ \E t \in CmdTaskIds :
       /\ Awaiting(t, "editGuildApplicationCommand", "req")
       /\ \E res \in PatchResponses(tasks[t].id, tasks[t].guild) :
            EditGuildApplicationCommandResume(t, res)
  \/ \E t \in CmdTaskIds :
       NestedAnswer(t, "editGuildApplicationCommand", EditGuildApplicationCommandGuild)
  \/ \E g \in GuildIds, id \in Ids : DeleteGuildApplicationCommand(g, id)
  \/ \E t \in CmdTaskIds, res \in DeleteResponses : DeleteGuildApplicationCommandResume(t, res)
  \/ \E g \in GuildIds, defs \in BulkInputs, c \in BOOLEAN :
       BulkOverwriteGuildApplicationCommands(g, defs, c)
  \/ \E t \in CmdTaskIds :
       NestedAnswer(t, "bulkOverwriteGuildApplicationCommands",
                    BulkOverwriteGuildApplicationCommandsGuild)
  \/ \E t \in CmdTaskIds :
       /\ Awaiting(t, "bulkOverwriteGuildApplicationCommands", "req")
       /\ \E res \in PutResponses(tasks[t].guild, tasks[t].data) :
            BulkOverwriteGuildApplicationCommandsResume(t, res)

SpecCmd == Init /\ [][NextCmd]_vars

----------------------------------------------------------------------------
(* The four fetch operations of the session, side by side *)

NextFetch ==
  \/ Ready
  \/ /\ Len(tasks) < MaxCmdCalls
     /\ \E id \in GuildIds, cc, sc \in BOOLEAN : FetchGuild(id, cc, sc)
  \/ \E t \in CmdTaskIds :
       /\ Awaiting(t, "fetchGuild", "req")
       /\ \E g \in GuildResponses(tasks[t].id) :
            \E o \in GuildCtorOutcomes(g) : FetchGuildResume(t, g, o)
  \/ /\ Len(tasks) < MaxCmdCalls
     /\ \E id \in Ids, cc, sc \in BOOLEAN : FetchChannel(id, cc, sc)
  \/ \E t \in CmdTaskIds :
       /\ Awaiting(t, "fetchChannel", "req")
       /\ \E c \in ChannelResponses(tasks[t].id) : FetchChannelResume(t, c)
  \/ \E id \in Ids, cc, c \in BOOLEAN : FetchApplicationCommand(id, cc, c)
  \/ \E t \in CmdTaskIds :
       /\ Awaiting(t, "fetchApplicationCommand", "req")
       /\ \E res \in CommandResponses(tasks[t].id, 0) : FetchApplicationCommandResume(t, res)
  \/ \E g \in GuildIds, id \in Ids, cc, c \in BOOLEAN :
       FetchGuildApplicationCommand(g, id, cc, c)
  \/ \E t \in CmdTaskIds :
       NestedAnswer(t, "fetchGuildApplicationCommand", FetchGuildApplicationCommandGuild)
  \/ \E t \in CmdTaskIds :
       /\ Awaiting(t, "fetchGuildApplicationCommand", "req")
       /\ \E res \in CommandResponses(tasks[t].id, tasks[t].guild) :
            FetchGuildApplicationCommandResume(t, res)

SpecFetch == Init /\ [][NextFetch]_vars

----------------------------------------------------------------------------
(* Client.fetchMembers *)

MemberGuildIds == 1..NumMemberGuilds

UnknownError == "UNKNOWN ERROR on fetching members from"

\* the answers to GET GUILD_MEMBERS(g): a page of members, each with the id of
\* its user, or a failure
MemberResponses(g) ==
  {RequestError} \cup
  {[Payload(0, -1, g, 0) EXCEPT !.list = [j \in 1..n |-> Payload(ids[j], -1, g, 0)]] :
     n \in 0..MaxPage, ids \in [1..MaxPage -> Ids]}

\* member.user of the Member built as object n
MemberUser(m, n) == Construct("User", m, n + 1)

\* the loop over the page writing only client.users
RECURSIVE MembersLoop_UsersOnly(_, _, _, _, _, _)
MembersLoop_UsersOnly(page, setToCache, us, ms, arr, n) ==
  IF page = <<>> THEN [users |-> us, members |-> ms, arr |-> arr, next |-> n]
  ELSE LET member == Construct("Member", Head(page), n)
       IN  MembersLoop_UsersOnly(Tail(page), setToCache,
                       IF setToCache THEN Set(us, member.id, MemberUser(Head(page), n)) ELSE us,
                       ms, Append(arr, member), n + 2)

\* the loop over the page: a Member (and its User) is built for every raw
\* member and, with setToCache, written to client.users and to the guild's
\* members under the user's id
RECURSIVE MembersLoop(_, _, _, _, _, _)
MembersLoop(page, setToCache, us, ms, arr, n) ==
  IF page = <<>> THEN [users |-> us, members |-> ms, arr |-> arr, next |-> n]
  ELSE LET member == Construct("Member", Head(page), n)
       IN  MembersLoop(Tail(page), setToCache,
                       IF setToCache THEN Set(us, member.id, MemberUser(Head(page), n)) ELSE us,
                       IF setToCache THEN Set(ms, member.id, member) ELSE ms,
                       Append(arr, member), n + 2)

\* fetchMembers once the guild fetch is over: the guild is looked up again,
\* and the page is requested if it is there
FetchMembersRequest(t, gs) ==
  IF ~Has(gs, t.guild) THEN Reject(t, UnknownError)
  ELSE Await(t, "req", Request("GET", "GUILD_MEMBERS", t.guild, 0, NoBody))

FetchMembers(g, setToCache) ==
  /\ Len(tasks) < MaxMemCalls
  /\ LET t == [BaseTask EXCEPT !.op = "fetchMembers", !.guild = g, !.cache = setToCache]
     IN  tasks' = Append(tasks,
           IF ~Has(guilds, g) THEN Await(t, "guild", GuildGet(g))
           ELSE FetchMembersRequest(t, guilds))
  /\ UNCHANGED <<user, guilds, channels, users, slashCommands, nextObj>>

FetchMembersGuild(t, g, outcome) ==
  NestedGuildResume(t, "fetchMembers", g, outcome, FetchMembersRequest)

\* the page is answered: a failure rejects the promise (and the loop over the
\* undefined page then throws inside the executor); a page is looped over
FetchMembersResume(t, res) ==
  /\ Awaiting(t, "fetchMembers", "req")
  /\ LET me == Reply(tasks[t], res)
         r == MembersLoop(res.list, me.cache, users, guilds[me.guild].members, <<>>, nextObj)
     IN  IF res.error
         THEN /\ tasks' = [tasks EXCEPT ![t] =
                   [Reject(me, "RequestError") EXCEPT !.thrown = "TypeError"]]
              /\ UNCHANGED <<users, guilds, nextObj>>
         ELSE /\ users' = r.users
              /\ guilds' = Set(guilds, me.guild, [guilds[me.guild] EXCEPT !.members = r.members])
              /\ nextObj' = r.next
              /\ tasks' = [tasks EXCEPT ![t] = [Resolve(me, Undefined) EXCEPT !.arr = r.arr]]
  /\ UNCHANGED <<user, channels, slashCommands>>

MemTaskIds == 1..MaxMemCalls

\* the member fetches of the session
NextMem ==
  \/ \E g \in MemberGuildIds, sc \in BOOLEAN : FetchMembers(g, sc)
  \/ \E t \in MemTaskIds : NestedAnswer(t, "fetchMembers", FetchMembersGuild)
  \/ \E t \in MemTaskIds :
       /\ Awaiting(t, "fetchMembers", "req")
       /\ \E res \in MemberResponses(tasks[t].guild) : FetchMembersResume(t, res)

SpecMem == Init /\ [][NextMem]_vars

----------------------------------------------------------------------------
(* The deletions of the session and of ChannelManager, side by side with the
   fetches that fill the caches they share identifiers with *)

\* the guilds a call may name
DeleteGuildIds == 1..NumMemberGuilds

NextDel ==
  \/ Ready
  \/ \E g \in DeleteGuildIds : FetchGuild(g, TRUE, TRUE)
  \/ \E t \in TaskIds :
       /\ Awaiting(t, "fetchGuild", "req")
       /\ \E g \in GuildResponses(tasks[t].id) :
            \E o \in GuildCtorOutcomes(g) : FetchGuildResume(t, g, o)
  \/ \E id \in Ids : FetchChannel(id, TRUE, TRUE)
  \/ \E t \in TaskIds :
       /\ Awaiting(t, "fetchChannel", "req")
       /\ \E c \in ChannelResponses(tasks[t].id) : FetchChannelResume(t, c)
  \/ \E g \in DeleteGuildIds, id \in Ids : ChannelManagerDelete(g, id)
  \/ \E t \in TaskIds, res \in DeleteResponses : ChannelManagerDeleteResume(t, res)
  \/ \E id \in Ids : FetchApplicationCommand(id, TRUE, TRUE)
  \/ \E t \in TaskIds :
       /\ Awaiting(t, "fetchApplicationCommand", "req")
       /\ \E res \in CommandResponses(tasks[t].id, 0) : FetchApplicationCommandResume(t, res)
  \/ \E g \in DeleteGuildIds, id \in Ids : FetchGuildApplicationCommand(g, id, TRUE, TRUE)
  \/ \E t \in TaskIds :
       NestedAnswer(t, "fetchGuildApplicationCommand", FetchGuildApplicationCommandGuild)
  \/ \E t \in TaskIds :
       /\ Awaiting(t, "fetchGuildApplicationCommand", "req")
       /\ \E res \in CommandResponses(tasks[t].id, tasks[t].guild) :
            FetchGuildApplicationCommandResume(t, res)
  \/ \E id \in Ids : DeleteApplicationCommand(id)
  \/ \E t \in TaskIds, res \in DeleteResponses : DeleteApplicationCommandResume(t, res)
  \/ \E g \in DeleteGuildIds, id \in Ids : DeleteGuildApplicationCommand(g, id)
  \/ \E t \in TaskIds, res \in DeleteResponses : DeleteGuildApplicationCommandResume(t, res)

SpecDel == Init /\ [][NextDel]_vars

----------------------------------------------------------------------------
(* The managers' constructors on the payloads a guild may embed *)

\* how many roles, and how many channels, a guild payload embeds at most
MaxInit == 2

\* the channel types an embedded channel may carry: 0 text, 5 one that
\* ChannelManager._addCache stores as a plain Channel
SeedChannelTypes == {0, 5}

\* the sequences of at most MaxInit elements of S
SeqsUpTo(S) == UNION {[1..n -> S] : n \in 0..MaxInit}

\* guild.data.roles and guild.data.channels: any ids in any order, an id
\* possibly more than once
SeedRoles == SeqsUpTo({Payload(i, -1, 0, 0) : i \in Ids})
SeedChannels == SeqsUpTo({Payload(i, ty, 0, 0) : i \in Ids, ty \in SeedChannelTypes})

\* the answers to GET GUILD(id) with such roles and channels embedded
SeedGuildResponses(id) ==
  {RequestError} \cup
  {[Payload(id, -1, 0, 0) EXCEPT !.roles = rs, !.channels = cs] :
     rs \in SeedRoles, cs \in SeedChannels}

NextSeed ==
  \/ /\ Len(tasks) < MaxCmdCalls
     /\ \E id \in GuildIds, cc, sc \in BOOLEAN : FetchGuild(id, cc, sc)
  \/ \E t \in CmdTaskIds :
       /\ Awaiting(t, "fetchGuild", "req")
       /\ \E g \in SeedGuildResponses(tasks[t].id) :
            \E o \in GuildCtorOutcomes(g) : FetchGuildResume(t, g, o)

SpecSeed == Init /\ [][NextSeed]_vars

----------------------------------------------------------------------------
(* Properties of the cache layer *)

FetchOps == {"fetchGuild", "RoleManager.fetch", "ChannelManager.fetch"}
DeleteOps == {"RoleManager.delete", "ChannelManager.delete"}

\* the cache of the manager that task t was called on, as the guilds gs show it
ManagerCacheIn(gs, t) ==
  IF Has(gs, t.guild) /\ gs[t.guild].obj = t.mgr
  THEN IF t.op \in {"RoleManager.fetch", "RoleManager.delete"}
       THEN gs[t.guild].roles ELSE gs[t.guild].channels
  ELSE EmptyCollection

\* what the cache that fetch task t consults holds under t.id
CachedIn(gs, t) ==
  IF t.op = "fetchGuild"
  THEN IF Has(gs, t.id) THEN GuildView(gs[t.id]) ELSE Undefined
  ELSE Get(ManagerCacheIn(gs, t), t.id)

\* the cache that task t consults is in sight
InSight(gs, t) ==
  t.op = "fetchGuild" \/ (Has(gs, t.guild) /\ gs[t.guild].obj = t.mgr)

\* C1, a call that finds id cached: no request, the cached object itself is
\* returned, and the cache stays as it is
C1_Hit ==
  \A t \in (DOMAIN tasks') \ (DOMAIN tasks) :
    (/\ tasks'[t].op \in FetchOps
     /\ tasks'[t].checkCache
     /\ Truthy(CachedIn(guilds, tasks'[t])))
    => /\ tasks'[t].reqs = <<>>
       /\ tasks'[t].promise = "resolved"
       /\ tasks'[t].result = CachedIn(guilds', tasks'[t])
       /\ guilds' = guilds

\* C1, a call that missed and got the entity from the remote: one GET, and
\* the entity is cached under id when the call returns
C1_Miss ==
  \A t \in DOMAIN tasks :
    (/\ tasks[t].op \in FetchOps
     /\ tasks[t].pc = "req"
     /\ tasks'[t].pc = "end"
     /\ tasks[t].cache
     /\ ~tasks'[t].replies[1].error
     /\ InSight(guilds', tasks[t]))
    => /\ Len(tasks'[t].reqs) = 1
       /\ tasks'[t].reqs[1].method = "GET"
       /\ Truthy(CachedIn(guilds', tasks[t]))
       /\ CachedIn(guilds', tasks[t]).id = tasks[t].id

\* C1: RoleManager.fetch, ChannelManager.fetch and Client.fetchGuild
\* (checkCache = true): the first call for an id issues one GET and leaves the
\* entity cached under id; a call that finds id cached issues no request and
\* returns the very object the cache holds, so two consecutive calls issue
\* exactly one GET
C1_CacheIdempotence == [][C1_Hit /\ C1_Miss]_vars

\* C1 witness: RoleManager.fetch missed, issued its one GET, and the next
\* fetch of the same role was served the cached object without a request
C1_Witness ==
  \E t1, t2 \in DOMAIN tasks :
    /\ t1 < t2
    /\ tasks[t1].op = "RoleManager.fetch" /\ tasks[t2].op = "RoleManager.fetch"
    /\ tasks[t1].id = tasks[t2].id /\ tasks[t1].mgr = tasks[t2].mgr
    /\ ~tasks[t1].hit /\ tasks[t1].promise = "resolved" /\ Len(tasks[t1].reqs) = 1
    /\ tasks[t2].hit /\ tasks[t2].reqs = <<>>
    /\ tasks[t2].result = CachedIn(guilds, tasks[t2])
    /\ tasks[t2].result.obj # 0

\* C2: when the GET fails, fetchGuild and fetchChannel reject with the
\* transport error and leave client.guilds and client.channels as they were
C2_FailurePropagates ==
  [][\A t \in DOMAIN tasks :
       (/\ tasks[t].op \in {"fetchGuild", "fetchChannel"}
        /\ tasks[t].pc = "req"
        /\ tasks'[t].pc = "end"
        /\ tasks'[t].replies[1].error)
       => /\ tasks'[t].promise = "rejected"
          /\ tasks'[t].err = "RequestError"
          /\ guilds' = guilds
          /\ channels' = channels]_vars

\* every entry of cache c is a defined entity stored under its own id
Agrees(c) == \A k \in DOMAIN c : Truthy(c[k]) /\ c[k].id = k

\* C4: in every reachable state every entry (k, v) of every cache, the
\* session's and each guild's, has a defined v with v.id = k
C4_KeyValueAgreement ==
  /\ Agrees(channels)
  /\ Agrees(users)
  /\ Agrees(slashCommands)
  /\ \A g \in DOMAIN guilds :
       /\ guilds[g].id = g
       /\ Agrees(guilds[g].roles)
       /\ Agrees(guilds[g].channels)
       /\ Agrees(guilds[g].members)
       /\ Agrees(guilds[g].slashCommands)

\* the channel types fetchChannel knows
KnownChannelTypes == {0, 1, 2, 4}

\* C5: fetchChannel on a payload of a type other than 0, 1, 2, 4 builds
\* nothing and leaves client.channels untouched, whatever setToCache is
C5_UnknownTypeDropped ==
  [][\A t \in DOMAIN tasks :
       (/\ tasks[t].op = "fetchChannel"
        /\ tasks[t].pc = "req"
        /\ tasks'[t].pc = "end"
        /\ ~tasks'[t].replies[1].error
        /\ tasks'[t].replies[1].type \notin KnownChannelTypes)
       => /\ tasks'[t].result = Undefined
          /\ channels' = channels]_vars

\* C6, the call: id is out of the manager's cache when the DELETE goes out
C6_EvictsFirst ==
  \A t \in (DOMAIN tasks') \ (DOMAIN tasks) :
    tasks'[t].op \in DeleteOps
    => /\ ~Has(ManagerCacheIn(guilds', tasks'[t]), tasks'[t].id)
       /\ tasks'[t].pc = "req"
       /\ Len(tasks'[t].reqs) = 1
       /\ tasks'[t].reqs[1].method = "DELETE"
       /\ tasks'[t].reqs[1].ep = (IF tasks'[t].op = "RoleManager.delete" THEN "ROLE" ELSE "CHANNEL")

\* C6, the answer: a failure rejects with the transport error, a success
\* returns true, and neither touches the cache again
C6_Answered ==
  \A t \in DOMAIN tasks :
    (tasks[t].op \in DeleteOps /\ tasks[t].pc = "req" /\ tasks'[t] # tasks[t])
    => /\ guilds' = guilds
       /\ tasks'[t].pc = "end"
       /\ tasks'[t].replies[1].error
            => (tasks'[t].promise = "rejected" /\ tasks'[t].err = "RequestError")
       /\ ~tasks'[t].replies[1].error
            => (tasks'[t].promise = "resolved" /\ tasks'[t].result = True)

\* C6: a manager's delete(id) takes id out of its cache before the DELETE is
\* issued; a failed DELETE reaches the caller and id stays out (no rollback); a
\* successful one returns true
C6_OptimisticDelete == [][C6_EvictsFirst /\ C6_Answered]_vars

\* C6 witness: a role that the guild payload seeded was deleted, the DELETE
\* failed, the caller got the failure, and the role is still out of the cache
C6_Witness ==
  \E t0, t \in DOMAIN tasks :
    /\ t0 < t
    /\ tasks[t0].op = "fetchGuild" /\ tasks[t0].promise = "resolved"
    /\ Len(tasks[t0].replies) = 1
    /\ \E j \in DOMAIN tasks[t0].replies[1].roles :
         tasks[t0].replies[1].roles[j].id = tasks[t].id
    /\ tasks[t].op = "RoleManager.delete"
    /\ tasks[t].mgr = tasks[t0].result.obj
    /\ Len(tasks[t].replies) = 1 /\ tasks[t].replies[1].error
    /\ tasks[t].promise = "rejected"
    /\ InSight(guilds, tasks[t])
    /\ ~Has(ManagerCacheIn(guilds, tasks[t]), tasks[t].id)

----------------------------------------------------------------------------
(* Properties of the application-command operations *)

GlobalMutations ==
  {"createApplicationCommand", "editApplicationCommand",
   "deleteApplicationCommand", "bulkOverwriteApplicationCommands"}
GuildMutations ==
  {"createGuildApplicationCommand", "editGuildApplicationCommand",
   "deleteGuildApplicationCommand", "bulkOverwriteGuildApplicationCommands"}
CommandOps ==
  GlobalMutations \cup GuildMutations \cup
  {"fetchApplicationCommand", "fetchGuildApplicationCommand"}
CreateOps == {"createApplicationCommand", "createGuildApplicationCommand"}

\* the tasks that took a step
Stepped == {t \in DOMAIN tasks : tasks'[t] # tasks[t]}
\* the tasks that were called in the step
Called == (DOMAIN tasks') \ (DOMAIN tasks)

\* the requests of task t to the command endpoints that the remote failed
FailedCommandRequests(t) ==
  {j \in DOMAIN t.replies : t.replies[j].error /\ t.reqs[j].ep # "GUILD"}

\* C3: a command operation whose remote request failed settles its promise
\* by rejecting with that failure: once its function body is over, the promise
\* is not pending
C3_FailureSettles ==
  \A t \in DOMAIN tasks :
    (/\ tasks[t].op \in CommandOps
     /\ tasks[t].pc = "end"
     /\ FailedCommandRequests(tasks[t]) # {})
    => /\ tasks[t].promise = "rejected"
       /\ tasks[t].err = "RequestError"

\* the slashCommands caches of the guilds gs
GuildCommandCaches(gs) == [g \in DOMAIN gs |-> gs[g].slashCommands]

\* C7: a guild-scoped command mutation never adds to, replaces in or removes
\* from client.slashCommands, a global one never touches a guild's
\* slashCommands, and client.slashCommands holds global commands only
C7_ScopesKeptApart ==
  [][/\ \A t \in Stepped \cup Called :
          /\ tasks'[t].op \in GuildMutations => slashCommands' = slashCommands
          /\ tasks'[t].op \in GlobalMutations =>
               GuildCommandCaches(guilds') = GuildCommandCaches(guilds)
     /\ \A k \in DOMAIN slashCommands' : slashCommands'[k].guild_id = 0]_vars

\* C8, the call: with client.user unset a command mutation rejects with the
\* not-connected error whatever its input, issues nothing, changes no cache
C8_Call ==
  \A t \in Called :
    (tasks'[t].op \in GlobalMutations \cup GuildMutations /\ ~user)
    => /\ tasks'[t].promise = "rejected"
       /\ tasks'[t].err = NotConnected
       /\ tasks'[t].pc = "end"
       /\ tasks'[t].reqs = <<>>
       /\ UNCHANGED <<guilds, channels, users, slashCommands>>

\* C8, afterwards: such a call never issues a request
C8_Never ==
  \A t \in DOMAIN tasks' :
    (tasks'[t].op \in GlobalMutations \cup GuildMutations /\ ~tasks'[t].connected)
    => tasks'[t].reqs = <<>> /\ tasks'[t].promise = "rejected"

\* C8: every command mutation called while client.user is unset rejects
\* without a remote call (no guild fetch either) and without a cache change,
\* and does so before it looks at its input
C8_FailsFastWithoutUser == [][C8_Call /\ C8_Never]_vars

\* C8 witness: a guild edit with no field to change, for a guild that is not
\* cached, called before READY: rejected as not connected, nothing issued
C8_Witness ==
  \E t \in DOMAIN tasks :
    /\ tasks[t].op = "editGuildApplicationCommand"
    /\ ~tasks[t].connected
    /\ ~EditAllowed(tasks[t].fields)
    /\ ~Has(guilds, tasks[t].guild)
    /\ tasks[t].promise = "rejected"
    /\ tasks[t].err = NotConnected
    /\ tasks[t].reqs = <<>>

\* the POSTs task t issued
Posts(t) == SelectSeq(t.reqs, LAMBDA r : r.method = "POST")

\* the command cache a create task writes to
CreateCacheIn(gs, sc, t) ==
  IF t.op = "createApplicationCommand" THEN sc
  ELSE IF Has(gs, t.guild) THEN gs[t.guild].slashCommands ELSE EmptyCollection

\* C9, one answer to a POST of an array create: a failure ends the call with
\* nothing more issued or cached; a success has the command cached (cache =
\* true) when the next POST goes out, and that POST is the only new request
C9_Answer ==
  \A t \in Stepped :
    (tasks[t].op \in CreateOps /\ tasks[t].isArray /\ tasks[t].pc = "req")
    => LET a == tasks[t]
           b == tasks'[t]
           res == b.replies[Len(b.replies)]
           command == b.arr[Len(b.arr)]
       IN  IF res.error
           THEN /\ b.pc = "end"
                /\ b.reqs = a.reqs
                /\ b.arr = a.arr
                /\ UNCHANGED <<guilds, slashCommands>>
           ELSE /\ Len(b.arr) = Len(a.arr) + 1
                /\ command.id = res.id
                /\ a.cache => Get(CreateCacheIn(guilds', slashCommands', a), res.id) = command
                /\ IF Len(b.arr) < Len(a.data)
                   THEN /\ b.pc = "req"
                        /\ Len(b.reqs) = Len(a.reqs) + 1
                        /\ b.reqs[Len(b.reqs)].method = "POST"
                   ELSE /\ b.pc = "end"
                        /\ b.promise = "resolved"
                        /\ b.reqs = a.reqs

\* C9, at any time: POSTs go out one at a time, one for each definition so
\* far and never more than there are definitions; after a failed k-th POST
\* exactly k were issued
C9_Count ==
  \A t \in DOMAIN tasks' :
    (tasks'[t].op \in CreateOps /\ tasks'[t].isArray)
    => LET b == tasks'[t]
       IN  /\ Len(Posts(b)) =
                Len(b.arr) + (IF b.pc = "req" \/ b.thrown = "RequestError" THEN 1 ELSE 0)
           /\ Len(Posts(b)) <= Len(b.data)
           /\ Len(b.reqs) - Len(b.replies) = (IF b.pc = "end" THEN 0 ELSE 1)
           /\ b.pc = "end" /\ b.promise = "resolved" => Len(b.arr) = Len(b.data)

\* C9: an array create issues its POSTs one at a time, each awaited before the
\* next; when the k-th fails, exactly k were issued, the commands of the first
\* k-1 are cached (cache = true) and no further POST is ever issued
C9_SequentialCreate == [][C9_Answer /\ C9_Count]_vars

\* C9 witness: three definitions, the second POST failed: two POSTs issued,
\* the first command cached, the call over
C9_Witness ==
  \E t \in DOMAIN tasks :
    /\ tasks[t].op = "createApplicationCommand"
    /\ tasks[t].isArray /\ tasks[t].cache
    /\ Len(tasks[t].data) = 3
    /\ tasks[t].thrown = "RequestError"
    /\ tasks[t].pc = "end"
    /\ Len(Posts(tasks[t])) = 2
    /\ Len(tasks[t].arr) = 1
    /\ Get(slashCommands, tasks[t].arr[1].id) = tasks[t].arr[1]

\* C10: in the array form of create, the body of the i-th POST is made from
\* the i-th definition alone
C10_BodyPerElement ==
  \A t \in DOMAIN tasks :
    (tasks[t].op \in CreateOps /\ tasks[t].isArray)
    => \A i \in DOMAIN Posts(tasks[t]) :
         Posts(tasks[t])[i].body =
           ResolveApplicationCommandForApi(FALSE, <<tasks[t].data[i]>>)

EditOps == {"editApplicationCommand", "editGuildApplicationCommand"}

\* the command cache of an edit task
EditCacheIn(gs, sc, t) ==
  IF t.op = "editApplicationCommand" THEN sc
  ELSE IF Has(gs, t.guild) THEN gs[t.guild].slashCommands ELSE EmptyCollection

\* the command cache an edit task is about to look in: an edit that had to
\* fetch its guild looks in the cache of the Guild that fetch stores, which
\* is new and holds no command
EditLooksIn(gs, sc, t) ==
  IF t.pc = "guild" THEN EmptyCollection ELSE EditCacheIn(gs, sc, t)

\* C11, the step in which an edit resolves: for a cached id the result is the
\* object cached before, it is what is cached afterwards, and it carries the
\* fields of the PATCH response; for an uncached id the result is an object
\* that did not exist before, cached exactly if cache = true
C11_Resolves ==
  \A t \in Stepped :
    (tasks[t].op \in EditOps /\ tasks'[t].promise = "resolved")
    => LET a == tasks[t]
           b == tasks'[t]
           before == EditLooksIn(guilds, slashCommands, a)
           after == EditCacheIn(guilds', slashCommands', a)
           cmd == b.replies[1]
       IN  /\ b.result.kind = "ApplicationCommand"
           /\ b.result.id = cmd.id
           /\ b.result.def = cmd.def
           /\ IF Has(before, a.id)
              THEN /\ b.result.obj = before[a.id].obj
                   /\ Get(after, a.id) = b.result
                   /\ DOMAIN after = DOMAIN before
              ELSE /\ b.result.obj >= nextObj
                   /\ nextObj' > b.result.obj
                   /\ a.cache => Get(after, a.id) = b.result
                   /\ ~a.cache => after = before

\* C11: a successful edit of a cached command returns the very object that
\* was cached, updated in place and still cached under its id; a successful
\* edit of an uncached command returns a newly built object, cached if
\* cache = true
C11_EditInPlace == [][C11_Resolves]_vars

\* C11 witness: a command fetched into client.slashCommands and then edited:
\* both calls returned the same object, the edit with another definition, and
\* the cache holds the edited one
C11_Witness ==
  \E t, u \in DOMAIN tasks :
    /\ tasks[t].op = "fetchApplicationCommand"
    /\ tasks[u].op = "editApplicationCommand"
    /\ tasks[t].promise = "resolved" /\ tasks[u].promise = "resolved"
    /\ tasks[u].id = tasks[t].id
    /\ tasks[u].result.obj = tasks[t].result.obj
    /\ tasks[u].result.def # tasks[t].result.def
    /\ Get(slashCommands, tasks[u].id) = tasks[u].result

----------------------------------------------------------------------------
(* Properties of Client.fetchMembers *)

\* the members caches of the guilds gs
MemberCaches(gs) == [g \in DOMAIN gs |-> gs[g].members]

\* C12: a fetchMembers whose guild fetch failed is rejected with the
\* unknown-error of fetchMembers and has requested no member page
C12_GuildUnresolvable ==
  \A t \in DOMAIN tasks :
    (/\ tasks[t].op = "fetchMembers"
     /\ tasks[t].replies # <<>>
     /\ tasks[t].reqs[1].ep = "GUILD"
     /\ tasks[t].replies[1].error)
    => /\ tasks[t].promise = "rejected"
       /\ tasks[t].err = UnknownError
       /\ \A j \in DOMAIN tasks[t].reqs : tasks[t].reqs[j].ep # "GUILD_MEMBERS"

\* the user ids of a page
PageIds(page) == {page[j].id : j \in DOMAIN page}

\* C13, the step in which a fetchMembers with setToCache resolves: the keys
\* of client.users and of the target guild's members grow by the user ids of
\* the page, every member and user sits under its user's id, and the members
\* of the other guilds stay as they are
C13_Resolves ==
  \A t \in Stepped :
    (tasks[t].op = "fetchMembers" /\ tasks'[t].promise = "resolved" /\ tasks[t].cache)
    => LET a == tasks[t]
           page == tasks'[t].replies[Len(tasks'[t].replies)].list
           before == guilds[a.guild].members
           after == guilds'[a.guild].members
       IN  /\ DOMAIN users' = DOMAIN users \cup PageIds(page)
           /\ DOMAIN after = DOMAIN before \cup PageIds(page)
           /\ \A k \in PageIds(page) :
                /\ users'[k].kind = "User" /\ users'[k].id = k
                /\ after[k].kind = "Member" /\ after[k].id = k
           /\ \A k \in DOMAIN users : k \notin PageIds(page) => users'[k] = users[k]
           /\ \A k \in DOMAIN before : k \notin PageIds(page) => after[k] = before[k]
           /\ (/\ Cardinality(PageIds(page)) = Len(page)
               /\ PageIds(page) \cap DOMAIN users = {}
               /\ PageIds(page) \cap DOMAIN before = {})
              => /\ Cardinality(DOMAIN users') = Cardinality(DOMAIN users) + Len(page)
                 /\ Cardinality(DOMAIN after) = Cardinality(DOMAIN before) + Len(page)
           /\ DOMAIN guilds' = DOMAIN guilds
           /\ \A g \in DOMAIN guilds : g # a.guild => guilds'[g] = guilds[g]

\* C13: a fetchMembers(guildId, setToCache = true) that resolves with a page
\* of n members with pairwise distinct, uncached user ids adds exactly n
\* entries to client.users and n to that guild's members, each under the
\* member's user id, and changes no other guild's members
C13_FanOut == [][C13_Resolves]_vars

\* C13 witness: a page of two members fetched into one guild while another
\* guild is cached: two users, two members there, none in the other guild
C13_Witness ==
  \E t \in DOMAIN tasks :
    /\ tasks[t].op = "fetchMembers"
    /\ tasks[t].promise = "resolved" /\ tasks[t].cache
    /\ Len(tasks[t].arr) = 2
    /\ tasks[t].arr[1].id # tasks[t].arr[2].id
    /\ Cardinality(DOMAIN users) = 2
    /\ Has(guilds, tasks[t].guild)
    /\ Cardinality(DOMAIN guilds[tasks[t].guild].members) = 2
    /\ \E g \in DOMAIN guilds : g # tasks[t].guild /\ guilds[g].members = EmptyCollection

----------------------------------------------------------------------------
(* Properties of the caching flags *)

SessionFetchOps ==
  {"fetchGuild", "fetchChannel", "fetchApplicationCommand", "fetchGuildApplicationCommand"}

\* the cache of the entity family that session fetch t is about
SessionFamily(gs, ch, sc, t) ==
  CASE t.op = "fetchGuild" -> gs
    [] t.op = "fetchChannel" -> ch
    [] t.op = "fetchApplicationCommand" -> sc
    [] OTHER -> GuildCommandCaches(gs)

\* that cache has an entry for the id of t
SessionHas(gs, ch, sc, t) ==
  CASE t.op = "fetchGuild" -> Has(gs, t.id)
    [] t.op = "fetchChannel" -> Has(ch, t.id)
    [] t.op = "fetchApplicationCommand" -> Has(sc, t.id)
    [] OTHER -> Has(gs, t.guild) /\ Has(gs[t.guild].slashCommands, t.id)

\* what that cache holds for the id of t
SessionCached(gs, ch, sc, t) ==
  CASE t.op = "fetchGuild" -> IF Has(gs, t.id) THEN GuildView(gs[t.id]) ELSE Undefined
    [] t.op = "fetchChannel" -> Get(ch, t.id)
    [] t.op = "fetchApplicationCommand" -> Get(sc, t.id)
    [] OTHER -> IF Has(gs, t.guild) THEN Get(gs[t.guild].slashCommands, t.id) ELSE Undefined

\* C14, a call with checkCache = false for a cached id: the GET for id goes out
C14_Call ==
  \A t \in Called :
    LET b == tasks'[t]
    IN  (/\ b.op \in SessionFetchOps
         /\ ~b.checkCache
         /\ b.op \in CommandOps => user
         /\ SessionHas(guilds, channels, slashCommands, b))
        => /\ b.pc = "req"
           /\ b.promise = "pending"
           /\ Len(b.reqs) = 1
           /\ b.reqs[1].method = "GET"
           /\ IF b.op = "fetchGuildApplicationCommand"
              THEN b.reqs[1].a = b.guild /\ b.reqs[1].b = b.id
              ELSE b.reqs[1].a = b.id

\* C14, the GET answered with an entity: with the flag false the family's
\* cache stays as it was, with the flag true the entity built from the answer
\* is what the cache holds under id
C14_Answer ==
  \A t \in Stepped :
    LET a == tasks[t]
        b == tasks'[t]
    IN  (/\ a.op \in SessionFetchOps
         /\ a.pc = "req"
         /\ ~b.replies[Len(b.replies)].error)
        => /\ b.promise = "resolved"
           /\ a.op # "fetchChannel" => Truthy(b.result)
           /\ ~a.cache => SessionFamily(guilds', channels', slashCommands', a) =
                            SessionFamily(guilds, channels, slashCommands, a)
           /\ (a.cache /\ Truthy(b.result))
              => /\ SessionCached(guilds', channels', slashCommands', a) = b.result
                 /\ b.result.id = a.id
                 /\ b.result.obj >= nextObj

\* C14: fetchGuild, fetchChannel, fetchApplicationCommand and
\* fetchGuildApplicationCommand honour their flags: checkCache = false issues
\* the GET although id is cached; a successful fetch with the cache flag
\* false leaves the family's cache unchanged, with the flag true it stores
\* the fetched entity under its id
C14_FlagsHonoured == [][C14_Call /\ C14_Answer]_vars

\* C14 witness: a command cached by one fetch is fetched again with
\* checkCache = false and cache = false: a GET went out, another object came
\* back, and the cache still holds the first
C14_Witness ==
  \E t, u \in DOMAIN tasks :
    /\ tasks[t].op = "fetchApplicationCommand" /\ tasks[u].op = "fetchApplicationCommand"
    /\ t < u /\ tasks[t].id = tasks[u].id
    /\ tasks[t].cache /\ tasks[t].promise = "resolved"
    /\ ~tasks[u].checkCache /\ ~tasks[u].cache
    /\ Len(tasks[u].reqs) = 1
    /\ tasks[u].promise = "resolved"
    /\ tasks[u].result.obj # tasks[t].result.obj
    /\ Get(slashCommands, tasks[t].id) = tasks[t].result

----------------------------------------------------------------------------
(* Properties of the managers' edit *)

ManagerEditOps == {"RoleManager.edit", "ChannelManager.edit"}

\* the cache of the manager that edit task t runs on, as the guilds gs show it
EditManagerCacheIn(gs, t) ==
  IF Has(gs, t.guild) /\ gs[t.guild].obj = t.mgr
  THEN IF t.op = "RoleManager.edit" THEN gs[t.guild].roles ELSE gs[t.guild].channels
  ELSE EmptyCollection

\* the requests of t other than the position PATCH
FieldRequests(t) == SelectSeq(t.reqs, LAMBDA r : r.ep # "ROLES")

\* C15, the order: whenever a position is supplied, 0 or not, the first
\* request of the edit is the PATCH of that position on the roles collection,
\* and it is the only one there
C15_Order ==
  \A t \in DOMAIN tasks' :
    LET b == tasks'[t]
    IN  (b.op = "RoleManager.edit" /\ OptPosition(b) # Absent)
        => /\ b.reqs # <<>>
           /\ b.reqs[1] = Request("PATCH", "ROLES", ManagerGuildId(b), 0,
                                  PositionBody(OptPosition(b)))
           /\ \A j \in DOMAIN b.reqs : j > 1 => b.reqs[j].ep # "ROLES"

\* C15, the second call failing: nothing further is requested and the role
\* cache stays as it is
C15_SecondFails ==
  \A t \in Stepped :
    LET a == tasks[t]
        b == tasks'[t]
    IN  (/\ a.op = "RoleManager.edit"
         /\ a.pc = "req"
         /\ b.replies[Len(b.replies)].error)
        => /\ b.reqs = a.reqs
           /\ b.pc = "end"
           /\ guilds' = guilds

\* C15: RoleManager.edit with a position issues the position PATCH on the
\* roles collection first and the field PATCH second, for every position
\* value, 0 included; a failure of the second is followed by no further
\* request and no cache update
C15_TwoStepEdit == [][C15_Order /\ C15_SecondFails]_vars

\* C16, the fetch: an edit goes to the remote for the entity only when no
\* name was given and id is not cached
C16_Fetch ==
  \A t \in Stepped \cup Called :
    LET b == tasks'[t]
    IN  (b.op \in ManagerEditOps /\ b.pc = "fetch")
        => /\ OptName(b) = Absent
           /\ ~Truthy(Get(EditManagerCacheIn(guilds, b), b.id))
           /\ Len(FieldRequests(b)) = 1
           /\ FieldRequests(b)[1].method = "GET"

\* C16, the PATCH going out: it carries the given name and is the only field
\* request, or it carries the name of the entity that fetch resolved, from
\* the cache without a request or from the answer to the one GET
C16_Patch ==
  \A t \in Stepped \cup Called :
    LET b == tasks'[t]
        patch == b.reqs[Len(b.reqs)]
        fetched == t \in DOMAIN tasks /\ tasks[t].pc = "fetch"
        cached == Get(EditManagerCacheIn(guilds, b), b.id)
    IN  (b.op \in ManagerEditOps /\ b.pc = "req")
        => /\ patch.method = "PATCH"
           /\ patch.a = b.id
           /\ IF OptName(b) # Absent
              THEN BodyName(patch.body) = OptName(b) /\ FieldRequests(b) = <<patch>>
              ELSE IF fetched
              THEN /\ ~b.replies[Len(b.replies)].error
                   /\ BodyName(patch.body) = b.replies[Len(b.replies)].def
                   /\ Len(FieldRequests(b)) = 2
              ELSE /\ Truthy(cached)
                   /\ BodyName(patch.body) = cached.def
                   /\ FieldRequests(b) = <<patch>>

\* C16, the PATCH answered with the entity: a new object built from the
\* answer takes the place of the cache entry for id
C16_Success ==
  \A t \in Stepped :
    LET a == tasks[t]
        b == tasks'[t]
        d == b.replies[Len(b.replies)]
        entry == Get(EditManagerCacheIn(guilds', a), a.id)
    IN  (/\ a.op \in ManagerEditOps
         /\ a.pc = "req"
         /\ ~d.error)
        => /\ b.promise = "resolved"
           /\ b.reqs = a.reqs
           /\ InSight(guilds', a)
              => /\ entry.id = a.id
                 /\ entry.def = d.def
                 /\ entry.obj >= nextObj

\* C16: an edit without a name resolves the entity through fetch (a GET only
\* if id is not cached) and sends the PATCH with that entity's name; an edit
\* with a name fetches nothing and sends one field PATCH; on success the cache
\* entry for id is replaced by an entity built from the PATCH response
C16_EditBackfill == [][C16_Fetch /\ C16_Patch /\ C16_Success]_vars

\* C16 witness: a role edited without a name while it was not cached: one
\* GET, then the PATCH under the name the GET brought, and the cache holds
\* the role of the PATCH response
C16_Witness ==
  \E t \in DOMAIN tasks :
    /\ tasks[t].op = "RoleManager.edit"
    /\ OptName(tasks[t]) = Absent
    /\ tasks[t].promise = "resolved"
    /\ Len(FieldRequests(tasks[t])) = 2
    /\ FieldRequests(tasks[t])[1].method = "GET"
    /\ BodyName(FieldRequests(tasks[t])[2].body) \in Names
    /\ Truthy(Get(EditManagerCacheIn(guilds, tasks[t]), tasks[t].id))
    /\ Get(EditManagerCacheIn(guilds, tasks[t]), tasks[t].id).def =
         BodyName(FieldRequests(tasks[t])[2].body)
    /\ Get(EditManagerCacheIn(guilds, tasks[t]), tasks[t].id).obj # tasks[t].result.obj

----------------------------------------------------------------------------
(* Properties of overlapping calls on one manager *)

ManagerFetchOps == {"RoleManager.fetch", "ChannelManager.fetch"}

\* the entity family of a manager operation
Family(op) ==
  IF op \in {"RoleManager.fetch", "RoleManager.delete"} THEN "role" ELSE "channel"

\* two tasks on the same manager and the same id
SameTarget(x, y) ==
  /\ Family(x.op) = Family(y.op)
  /\ x.guild = y.guild /\ x.mgr = y.mgr
  /\ x.id = y.id

\* C17, the call: a fetch called while id is absent issues its GET, whatever
\* other fetches of id are in flight
C17_Call ==
  \A t \in Called :
    LET b == tasks'[t]
    IN  (b.op \in ManagerFetchOps /\ ~Truthy(Get(ManagerCacheIn(guilds, b), b.id)))
        => /\ b.pc = "req"
           /\ Len(b.reqs) = 1
           /\ b.reqs[1].method = "GET"

\* C17, the answer: every answered fetch writes the entity it built from its
\* own answer over whatever the cache holds under id
C17_Answer ==
  \A t \in Stepped :
    LET a == tasks[t]
        b == tasks'[t]
        entry == Get(ManagerCacheIn(guilds', a), a.id)
    IN  (/\ a.op \in ManagerFetchOps
         /\ a.pc = "req"
         /\ ~b.replies[1].error
         /\ InSight(guilds', a))
        => /\ entry.id = a.id
           /\ entry.obj = nextObj
           /\ b.result.obj = nextObj + 1
           /\ nextObj' = nextObj + 2

\* C17: fetches of one id that overlap while id is absent each issue a GET
\* and each write their result; the cache ends up with the write of the
\* answer processed last, whichever call started first
C17_LastWriterWins == [][C17_Call /\ C17_Answer]_vars

\* C17 witness: two role fetches of one id, the second answered first: both
\* issued a GET, and the cache holds what the first call wrote last
C17_Witness ==
  \E t, u \in DOMAIN tasks :
    /\ t < u
    /\ tasks[t].op = "RoleManager.fetch" /\ tasks[u].op = "RoleManager.fetch"
    /\ SameTarget(tasks[t], tasks[u])
    /\ Len(tasks[t].reqs) = 1 /\ Len(tasks[u].reqs) = 1
    /\ tasks[t].promise = "resolved" /\ tasks[u].promise = "resolved"
    /\ tasks[u].result.obj < tasks[t].result.obj
    /\ InSight(guilds, tasks[t])
    /\ Get(ManagerCacheIn(guilds, tasks[t]), tasks[t].id).obj + 1 = tasks[t].result.obj

\* C18, the answer of a fetch that a delete of the same id overtook: the
\* fetch writes its result all the same, so id is cached after the eviction
C18_WritesAfterEviction ==
  \A t \in Stepped :
    LET a == tasks[t]
    IN  (/\ a.op \in ManagerFetchOps
         /\ a.pc = "req"
         /\ ~tasks'[t].replies[1].error
         /\ InSight(guilds', a)
         /\ \E u \in DOMAIN tasks :
              u > t /\ tasks[u].op \in DeleteOps /\ SameTarget(tasks[u], a))
        => /\ Truthy(Get(ManagerCacheIn(guilds', a), a.id))
           /\ Get(ManagerCacheIn(guilds', a), a.id).obj >= nextObj

\* C18: a fetch whose GET is in flight when delete(id) is called on the same
\* manager writes its result after the eviction, and no answer to a DELETE
\* takes it out again: id can be cached although delete(id) returned true
\* and nothing was started on id since
C18_FetchDeleteRace ==
  [][/\ C18_WritesAfterEviction
     /\ \A u \in Stepped : tasks[u].op \in DeleteOps => guilds' = guilds]_vars

\* C18 witness: fetch(id) was called, then delete(id), which returned true;
\* nothing else was called on the manager, and the cache contains id
C18_Witness ==
  \E t, u \in DOMAIN tasks :
    /\ t < u
    /\ tasks[t].op = "ChannelManager.fetch" /\ tasks[u].op = "ChannelManager.delete"
    /\ SameTarget(tasks[t], tasks[u])
    /\ tasks[u].promise = "resolved" /\ tasks[u].result = True
    /\ tasks[t].promise = "resolved"
    /\ \A v \in DOMAIN tasks : v > u => ~SameTarget(tasks[v], tasks[u])
    /\ InSight(guilds, tasks[u])
    /\ Has(ManagerCacheIn(guilds, tasks[u]), tasks[u].id)

\* the delete that fetch call b follows: the latest call on b's manager and
\* id is a delete, and every fetch of id before that delete was served from
\* the cache, so that none could write after the eviction
FollowsDelete(t, b) ==
  \E u \in DOMAIN tasks :
    /\ u < t
    /\ tasks[u].op \in DeleteOps /\ SameTarget(tasks[u], b)
    /\ \A v \in DOMAIN tasks :
         (v # u /\ SameTarget(tasks[v], b))
         => /\ v < u
            /\ tasks[v].op \in ManagerFetchOps => tasks[v].hit

----------------------------------------------------------------------------
(* Properties of the bulk overwrite *)

\* C20: bulkOverwriteApplicationCommands issues one PUT that carries the
\* whole sequence, and when it resolves with cache = true the keys of
\* client.slashCommands are the ids of the commands in the PUT response
C20_BulkOverwriteReplaces ==
  [][\A t \in Stepped :
       LET a == tasks[t]
           b == tasks'[t]
           list == b.replies[Len(b.replies)].list
       IN  (/\ a.op = "bulkOverwriteApplicationCommands"
            /\ b.promise = "resolved"
            /\ a.cache)
           => /\ Len(b.reqs) = 1
              /\ b.reqs[1].method = "PUT"
              /\ b.reqs[1].body = Body("each", a.data, {})
              /\ DOMAIN slashCommands' = {list[j].id : j \in DOMAIN list}]_vars

----------------------------------------------------------------------------
(* Properties of the deletions across caches *)

SessionDeleteOps == {"deleteApplicationCommand", "deleteGuildApplicationCommand"}

\* the guilds other than g, as gs holds them
OtherGuilds(gs, g) == [h \in (DOMAIN gs) \ {g} |-> gs[h]]

\* the entries of cache c other than the one under k
OtherEntries(c, k) == [x \in (DOMAIN c) \ {k} |-> c[x]]

\* guild g of gs with the cache that a delete works on left out
GuildBeside(gs, g, field) ==
  IF ~Has(gs, g) THEN Undefined
  ELSE IF field = "slashCommands"
  THEN [gs[g] EXCEPT !.slashCommands = EmptyCollection]
  ELSE [gs[g] EXCEPT !.channels = EmptyCollection]

\* C21: a delete removes its identifier from its own cache only:
\* deleteGuildApplicationCommand leaves client.slashCommands, every other
\* guild and the named guild's other caches as they were,
\* deleteApplicationCommand leaves every guild as it was, and
\* ChannelManager.delete leaves client.channels as it was; none of them
\* removes another identifier from the cache it works on
C21_CacheIndependence ==
  [][\A t \in Stepped \cup Called :
       LET b == tasks'[t]
       IN  /\ b.op = "deleteGuildApplicationCommand"
                => /\ slashCommands' = slashCommands
                   /\ channels' = channels
                   /\ users' = users
                   /\ OtherGuilds(guilds', b.guild) = OtherGuilds(guilds, b.guild)
                   /\ GuildBeside(guilds', b.guild, "slashCommands")
                        = GuildBeside(guilds, b.guild, "slashCommands")
                   /\ Has(guilds, b.guild)
                        => OtherEntries(guilds'[b.guild].slashCommands, b.id)
                             = OtherEntries(guilds[b.guild].slashCommands, b.id)
           /\ b.op = "deleteApplicationCommand"
                => /\ guilds' = guilds
                   /\ channels' = channels
                   /\ users' = users
                   /\ OtherEntries(slashCommands', b.id) = OtherEntries(slashCommands, b.id)
           /\ b.op = "ChannelManager.delete"
                => /\ channels' = channels
                   /\ slashCommands' = slashCommands
                   /\ users' = users
                   /\ OtherGuilds(guilds', b.guild) = OtherGuilds(guilds, b.guild)
                   /\ GuildBeside(guilds', b.guild, "channels")
                        = GuildBeside(guilds, b.guild, "channels")
                   /\ Has(guilds, b.guild)
                        => OtherEntries(guilds'[b.guild].channels, b.id)
                             = OtherEntries(guilds[b.guild].channels, b.id)]_vars

\* C21 witness: the guild payload seeded channel id into the guild's manager,
\* fetchChannel put the same id into client.channels, ChannelManager.delete
\* took it out of the manager's cache, and client.channels still holds it
C21_Witness ==
  \E t \in DOMAIN tasks :
    /\ tasks[t].op = "ChannelManager.delete"
    /\ tasks[t].promise = "resolved"
    /\ Has(guilds, tasks[t].guild)
    /\ guilds[tasks[t].guild].obj = tasks[t].mgr
    /\ ~Has(guilds[tasks[t].guild].channels, tasks[t].id)
    /\ Has(channels, tasks[t].id)
    /\ \E t0 \in DOMAIN tasks :
         /\ t0 < t
         /\ tasks[t0].op = "fetchGuild" /\ tasks[t0].promise = "resolved"
         /\ tasks[t0].result.obj = tasks[t].mgr
         /\ \E j \in DOMAIN tasks[t0].replies[1].channels :
              tasks[t0].replies[1].channels[j].id = tasks[t].id

----------------------------------------------------------------------------
(* Properties of the managers' constructors *)

\* the ids of the entries of list
EntryIds(list) == {list[j].id : j \in DOMAIN list}

\* the ids of list are pairwise distinct
DistinctIds(list) == \A i, j \in DOMAIN list : list[i].id = list[j].id => i = j

\* cache holds exactly the entries of list: one per entry, under the entry's
\* own id, built from that entry
SeededFrom(cache, list) ==
  /\ DOMAIN cache = EntryIds(list)
  /\ Cardinality(DOMAIN cache) = Len(list)
  /\ \A j \in DOMAIN list :
       /\ cache[list[j].id].id = list[j].id
       /\ cache[list[j].id].def = list[j].def

\* C22: the step that constructs a guild from a payload runs each manager's
\* _initCache once within that step: a payload embedding N roles (channels)
\* of pairwise distinct ids leaves the role (channel) cache with exactly N
\* entries, each under its own id, two objects are built per embedded entry,
\* and no request is issued
C22_InitPopulation ==
  [][\A t \in Stepped :
       LET a == tasks[t]
           b == tasks'[t]
           p == b.replies[Len(b.replies)]
       IN  (/\ a.op = "fetchGuild"
            /\ a.pc = "req"
            /\ b.promise = "resolved"
            /\ ~p.error
            /\ a.cache)
           => /\ b.pc = "end"
              /\ b.reqs = a.reqs
              /\ \A u \in DOMAIN tasks' : u # t => (u \in DOMAIN tasks /\ tasks'[u] = tasks[u])
              /\ Has(guilds', a.id)
              /\ guilds'[a.id].obj = b.result.obj
              /\ nextObj' = nextObj + 1 + 2 * (Len(p.roles) + Len(p.channels))
              /\ DistinctIds(p.roles) => SeededFrom(guilds'[a.id].roles, p.roles)
              /\ DistinctIds(p.channels) => SeededFrom(guilds'[a.id].channels, p.channels)
              /\ \A k \in DOMAIN guilds'[a.id].roles : guilds'[a.id].roles[k].kind = "Role"]_vars

\* C22 witness: a guild was constructed from a payload embedding two roles
\* and two channels of distinct ids, and the guild in client.guilds has both
\* caches filled with two entries, while the call issued its one GET only
C22_Witness ==
  \E t \in DOMAIN tasks :
    /\ tasks[t].op = "fetchGuild"
    /\ tasks[t].promise = "resolved"
    /\ ~tasks[t].hit
    /\ Len(tasks[t].reqs) = 1
    /\ Len(tasks[t].replies) = 1
    /\ LET p == tasks[t].replies[1]
       IN  /\ ~p.error
           /\ Len(p.roles) = 2 /\ DistinctIds(p.roles)
           /\ Len(p.channels) = 2 /\ DistinctIds(p.channels)
           /\ Has(guilds, tasks[t].id)
           /\ guilds[tasks[t].id].obj = tasks[t].result.obj
           /\ Cardinality(DOMAIN guilds[tasks[t].id].roles) = 2
           /\ Cardinality(DOMAIN guilds[tasks[t].id].channels) = 2

----------------------------------------------------------------------------
(* Properties of the edit's validation *)

\* C23: with client.user set, an edit of a command that supplies at least
\* one of name, description, options, defaultPermissions issues the PATCH,
\* and it is rejected with "you need to change one options or more" only
\* when it supplies none of them
C23_EditAcceptsOneField ==
  [][\A t \in Called :
       LET b == tasks'[t]
       IN  (b.op \in EditOps /\ b.connected)
           => IF b.fields # {}
              THEN /\ b.promise = "pending"
                   /\ b.pc = "req"
                   /\ Len(b.reqs) = 1
                   /\ b.reqs[1].method = "PATCH"
              ELSE /\ b.promise = "rejected"
                   /\ b.err = "you need to change one options or more"
                   /\ b.reqs = <<>>]_vars

----------------------------------------------------------------------------
(* Properties of the object a manager's fetch hands back *)

\* C24: a manager's fetch that missed the cache and got the entity from the
\* remote resolves with the very object it stored in the cache under id, so
\* that the next fetch of id, a hit, resolves with the same object
C24_ReturnsCachedObject ==
  [][\A t \in Stepped :
       LET a == tasks[t]
           b == tasks'[t]
           entry == Get(ManagerCacheIn(guilds', a), a.id)
       IN  (/\ a.op \in ManagerFetchOps
            /\ a.pc = "req"
            /\ b.promise = "resolved"
            /\ ~b.replies[1].error
            /\ InSight(guilds', a))
           => /\ Truthy(entry)
              /\ b.result.obj = entry.obj]_vars

----------------------------------------------------------------------------
(* Properties of the session's command deletion *)

\* the guilds gs with id taken out of guild g's command cache, if g is there
WithoutGuildCommand(gs, g, id) ==
  IF Has(gs, g)
  THEN Set(gs, g, [gs[g] EXCEPT !.slashCommands = Delete(@, id)])
  ELSE gs

\* C25, the call: deleting a command changes no cache at the call; with
\* client.user set it issues the DELETE and waits
C25_Call ==
  \A t \in Called :
    LET b == tasks'[t]
    IN  b.op \in SessionDeleteOps
        => /\ slashCommands' = slashCommands
           /\ guilds' = guilds
           /\ b.connected => /\ b.pc = "req"
                             /\ Len(b.reqs) = 1
                             /\ b.reqs[1].method = "DELETE"

\* C25, the answer: a failed DELETE leaves every command cache as it was; a
\* successful one removes id from the cache of the operation's scope
C25_Answer ==
  \A t \in Stepped :
    LET a == tasks[t]
        b == tasks'[t]
    IN  (a.op \in SessionDeleteOps /\ a.pc = "req")
        => IF b.replies[1].error
           THEN /\ slashCommands' = slashCommands
                /\ guilds' = guilds
           ELSE IF a.op = "deleteApplicationCommand"
           THEN /\ slashCommands' = Delete(slashCommands, a.id)
                /\ guilds' = guilds
           ELSE /\ slashCommands' = slashCommands
                /\ guilds' = WithoutGuildCommand(guilds, a.guild, a.id)

\* C25: deleteApplicationCommand and deleteGuildApplicationCommand take the
\* command out of the cache only once the remote DELETE has succeeded; when
\* the DELETE fails the command caches are left as they were
C25_PessimisticDelete == [][C25_Call /\ C25_Answer]_vars

\* C25 witness: a command was cached by an earlier call, the delete of it was
\* called next, its DELETE failed, and the command is still in the cache
C25_Witness ==
  \E t0, t \in DOMAIN tasks :
    /\ t0 < t
    /\ tasks[t0].promise = "resolved"
    /\ tasks[t0].cache
    /\ tasks[t0].op \in {"fetchApplicationCommand", "createApplicationCommand"}
    /\ tasks[t0].result.id = tasks[t].id
    /\ tasks[t].op = "deleteApplicationCommand"
    /\ tasks[t].pc = "end"
    /\ Len(tasks[t].replies) = 1
    /\ tasks[t].replies[1].error
    /\ Has(slashCommands, tasks[t].id)
    /\ slashCommands[tasks[t].id].obj = tasks[t0].result.obj

====
